---- MODULE Spec2Model ----
(***************************************************************************)
(* Authentication and authorization pipeline of the restooo API:           *)
(* AuthService (register, login, generateToken), the auth controller       *)
(* (register, login, me, logout) and the middleware chain (authMiddleware, *)
(* requireRole), with the credential store, the bcrypt hasher and the      *)
(* jsonwebtoken codec they call.                                           *)
(*                                                                         *)
(* Strings that the code takes apart (the Authorization header, a token)   *)
(* are sequences of chunks: a single space, a word without spaces, or the  *)
(* compact serialization of a JWT.  Concatenation is \o.                   *)
(***************************************************************************)
EXTENDS Integers, Sequences, FiniteSets, TLC

VARIABLES
    users,      \* the credential store: the rows of prisma.user
    nextId,     \* the id the store gives to the next created row
    now,        \* the clock, in the seconds jsonwebtoken counts
    env,        \* process.env: JWT_SECRET and JWT_EXPIRE
    failing,    \* the call of the store or of the hasher that rejects at
                \* present: one of Calls, or "none" when all of them succeed
    proc,       \* the server process: how far its start has come, and the
                \* .env file it was started beside
    inflight,   \* the requests whose handler is suspended at an await
    held,       \* the token a client keeps from a register or login response
    registered, \* history: the {email, password} of each account registered
                \* and not deleted since
    last        \* the request in hand: what it carried, the store it found
                \* and what the chain did

vars == <<users, nextId, now, env, failing, proc, inflight, held, registered,
         last>>

----------------------------------------------------------------------------
(* Bounds of the model *)

\* the clock runs 0..MaxTime
MaxTime == 3
\* the store creates at most MaxUsers rows in a run
MaxUsers == 2
\* JWT_EXPIRE, in clock ticks
ExpireTicks == 2
\* longest Authorization header, in chunks, of the gate specification
MaxHeaderLen == 3
\* longest allow-list handed to requireRole in the gate specification
MaxAllowed == 2
\* requests the server works on at the same time
MaxInflight == 2

----------------------------------------------------------------------------
(* Values *)

Roles == {"ADMIN", "MANAGER", "STAFF", "CHEF"}
Emails == {"a@x.com", "b@x.com"}
Passwords == {"secret1", "secret2"}
Names == {"Al"}
Salts == {"salt1"}
ServerSecret == [value |-> "server-secret"]
AttackerSecret == [value |-> "attacker-secret"]

\* undefined (req.user before a gate attached an identity, an unset variable)
Undefined == [undefined |-> TRUE]
\* null (findUnique found no row)
Null == [null |-> TRUE]

SP == [k |-> "sp"]
Word(w) == [k |-> "word", w |-> w]
Jwt(t) == [k |-> "jwt", t |-> t]
Str(w) == <<Word(w)>>

\* req.headers.authorization: absent, or a string
NoHeader == [present |-> FALSE, value |-> <<>>]
Header(s) == [present |-> TRUE, value |-> s]
Bearer(token) == Header(<<Word("Bearer"), SP>> \o token)

\* JavaScript truthiness of a string | undefined
Truthy(h) == h.present /\ h.value # <<>>

----------------------------------------------------------------------------
(* String.prototype.split(" ") and Array.prototype.join(", ") *)

RECURSIVE SplitFrom(_, _, _)
SplitFrom(s, i, acc) ==
    IF i > Len(s) THEN acc
    ELSE IF s[i] = SP
         THEN SplitFrom(s, i + 1, Append(acc, <<>>))
         ELSE SplitFrom(s, i + 1,
                  [acc EXCEPT ![Len(acc)] = Append(@, s[i])])

\* fault: empty segments are dropped, as split(/\s+/).filter(Boolean) would
Split_DropsEmpty(s) ==
    SelectSeq(SplitFrom(s, 1, << <<>> >>), LAMBDA part : part # <<>>)

Split(s) == SplitFrom(s, 1, << <<>> >>)

RECURSIVE Join(_, _)
Join(arr, sep) ==
    IF Len(arr) = 0 THEN <<>>
    ELSE IF Len(arr) = 1 THEN <<Word(arr[1])>>
    ELSE <<Word(arr[1]), Word(sep)>> \o Join(Tail(arr), sep)

Includes(arr, x) == \E i \in 1..Len(arr) : arr[i] = x

----------------------------------------------------------------------------
(* bcryptjs *)

BcryptHash(password, salt) ==
    [salt |-> salt, rounds |-> 10, digest |-> <<password, salt, 10>>]

BcryptCompare(plain, hash) ==
    hash.digest = <<plain, hash.salt, hash.rounds>>

hashPassword(password, salt) == BcryptHash(password, salt)

\* fault: the promise of bcrypt.compare is tested without await, and a
\* promise is truthy
comparePasswords_Truthy(plainPassword, hashedPassword) == TRUE

comparePasswords(plainPassword, hashedPassword) ==
    BcryptCompare(plainPassword, hashedPassword)

----------------------------------------------------------------------------
(* jsonwebtoken *)

HS256(payload, secret) == [over |-> payload, key |-> secret]

\* jwt.sign(payload, secret, {expiresIn}): iat and exp are added to the payload
jwtSign(payload, secret, expiresIn, clock) ==
    LET full == [userId |-> payload.userId, email |-> payload.email,
                 role |-> payload.role, iat |-> clock,
                 exp |-> clock + expiresIn]
    IN  <<Jwt([payload |-> full, sig |-> HS256(full, secret)])>>

IsJwt(token) == Len(token) = 1 /\ token[1].k = "jwt"

JwtError(name, message) == [ok |-> FALSE, name |-> name, message |-> message]

\* fault: a token is still good at its expiry instant (> in place of >=)
jwtVerify_ExpiredAfter(token, secret, clock) ==
    IF token = <<>> THEN JwtError("JsonWebTokenError", "jwt must be provided")
    ELSE IF ~IsJwt(token) THEN JwtError("JsonWebTokenError", "jwt malformed")
    ELSE IF failing = "verify" THEN JwtError("Error", "unexpected failure")
    ELSE IF secret = Undefined
         THEN JwtError("JsonWebTokenError",
                       "secret or public key must be provided")
    ELSE IF token[1].t.sig # HS256(token[1].t.payload, secret)
         THEN JwtError("JsonWebTokenError", "invalid signature")
    ELSE IF clock > token[1].t.payload.exp
         THEN JwtError("TokenExpiredError", "jwt expired")
    ELSE [ok |-> TRUE, payload |-> token[1].t.payload]

\* fault: the expiry is tested before the signature
jwtVerify_ExpiryFirst(token, secret, clock) ==
    IF token = <<>> THEN JwtError("JsonWebTokenError", "jwt must be provided")
    ELSE IF ~IsJwt(token) THEN JwtError("JsonWebTokenError", "jwt malformed")
    ELSE IF failing = "verify" THEN JwtError("Error", "unexpected failure")
    ELSE IF secret = Undefined
         THEN JwtError("JsonWebTokenError",
                       "secret or public key must be provided")
    ELSE IF clock >= token[1].t.payload.exp
         THEN JwtError("TokenExpiredError", "jwt expired")
    ELSE IF token[1].t.sig # HS256(token[1].t.payload, secret)
         THEN JwtError("JsonWebTokenError", "invalid signature")
    ELSE [ok |-> TRUE, payload |-> token[1].t.payload]

\* jwt.verify(token, secret): decode, then the signature, then exp; a failure
\* while the three parts are decoded that is none of the library's own error
\* classes is thrown as it is
jwtVerify(token, secret, clock) ==
    IF token = <<>> THEN JwtError("JsonWebTokenError", "jwt must be provided")
    ELSE IF ~IsJwt(token) THEN JwtError("JsonWebTokenError", "jwt malformed")
    ELSE IF failing = "verify" THEN JwtError("Error", "unexpected failure")
    ELSE IF secret = Undefined
         THEN JwtError("JsonWebTokenError",
                       "secret or public key must be provided")
    ELSE IF token[1].t.sig # HS256(token[1].t.payload, secret)
         THEN JwtError("JsonWebTokenError", "invalid signature")
    ELSE IF clock >= token[1].t.payload.exp
         THEN JwtError("TokenExpiredError", "jwt expired")
    ELSE [ok |-> TRUE, payload |-> token[1].t.payload]

\* error instanceof jwt.TokenExpiredError / jwt.JsonWebTokenError
InstanceOfTokenExpiredError(e) == e.name = "TokenExpiredError"
InstanceOfJsonWebTokenError(e) ==
    e.name \in {"JsonWebTokenError", "TokenExpiredError", "NotBeforeError"}

----------------------------------------------------------------------------
(* The request as the chain sees it: req, res and what each layer did *)

NewRequest(authorization, body) ==
    [headers |-> [authorization |-> authorization],
     body |-> body,
     user |-> Undefined,
     sent |-> <<>>,       \* res.status(..).json(..) calls, in order
     ran |-> <<>>,        \* the layers invoked, in order
     nexts |-> <<>>,      \* the layers that called next()
     verifies |-> 0]      \* calls of jwt.verify

Enter(c, layer) == [c EXCEPT !.ran = Append(@, layer)]
CallNext(c, layer) == [c EXCEPT !.nexts = Append(@, layer)]
Respond(c, layer, status, body) ==
    [c EXCEPT !.sent = Append(@, [by |-> layer, status |-> status,
                                  body |-> body])]

ErrorBody(message) == [status |-> "error", message |-> message]
DataBody(data) == [status |-> "success", data |-> data]
MessageBody(message) == [status |-> "success", message |-> message]

\* Express runs the next layer of a route only when this one called next()
Passed(c, layer) == Includes(c.nexts, layer)

----------------------------------------------------------------------------
(* server.ts: the process *)

\* app.listen has been called: the server takes requests
Listening == [state |-> "listening", dotenv |-> [undefined |-> TRUE]]

\* config/env.ts: envSchema.parse(process.env), run when the module is
\* evaluated; no module of the server imports config/env
envSchemaParse(e) ==
    IF e.JWT_SECRET = [undefined |-> TRUE]
    THEN [ok |-> FALSE, error |-> "JWT_SECRET is required in .env"]
    ELSE [ok |-> TRUE,
          env |-> [JWT_SECRET |-> e.JWT_SECRET,
                   JWT_EXPIRE |-> IF e.JWT_EXPIRE = [undefined |-> TRUE]
                                  THEN [default |-> "7d"]
                                  ELSE e.JWT_EXPIRE]]

----------------------------------------------------------------------------
(* middleware/authMiddleware.ts *)

\* fault: the catch block answers and then falls through to next()
authCatch_FallsThrough(c, error) ==
    CallNext(Respond(c, "authMiddleware", 401,
                     ErrorBody(Str(IF InstanceOfTokenExpiredError(error)
                                   THEN "Token expired"
                                   ELSE "Invalid token"))),
             "authMiddleware")

\* fault: the catch block tests JsonWebTokenError, the base class, first
authCatch_BaseClassFirst(c, error) ==
    IF InstanceOfJsonWebTokenError(error)
    THEN Respond(c, "authMiddleware", 401, ErrorBody(Str("Invalid token")))
    ELSE IF InstanceOfTokenExpiredError(error)
    THEN Respond(c, "authMiddleware", 401, ErrorBody(Str("Token expired")))
    ELSE Respond(c, "authMiddleware", 401,
                 ErrorBody(Str("Authentication failed")))

\* fault: the catch block answers with the library's own error message
authCatch_LeaksError(c, error) ==
    Respond(c, "authMiddleware", 401, ErrorBody(Str(error.message)))

\* fault: the catch block handles the library's errors only; with any other
\* error the request goes on without an identity
authCatch_OthersPass(c, error) ==
    IF InstanceOfTokenExpiredError(error)
    THEN Respond(c, "authMiddleware", 401, ErrorBody(Str("Token expired")))
    ELSE IF InstanceOfJsonWebTokenError(error)
    THEN Respond(c, "authMiddleware", 401, ErrorBody(Str("Invalid token")))
    ELSE CallNext(c, "authMiddleware")

\* the catch block of authMiddleware
authCatch(c, error) ==
    IF InstanceOfTokenExpiredError(error)
    THEN Respond(c, "authMiddleware", 401, ErrorBody(Str("Token expired")))
    ELSE IF InstanceOfJsonWebTokenError(error)
    THEN Respond(c, "authMiddleware", 401, ErrorBody(Str("Invalid token")))
    ELSE Respond(c, "authMiddleware", 401,
                 ErrorBody(Str("Authentication failed")))

\* fault: the token is decoded with jwt.decode, which checks nothing
authVerify_DecodeOnly(c, token, clock) ==
    LET c1 == [c EXCEPT !.verifies = @ + 1]
    IN  IF IsJwt(token)
        THEN CallNext([c1 EXCEPT !.user =
                          [userId |-> token[1].t.payload.userId,
                           email |-> token[1].t.payload.email,
                           role |-> token[1].t.payload.role]],
                      "authMiddleware")
        ELSE Respond(c1, "authMiddleware", 401,
                     ErrorBody(Str("Invalid token")))

\* fault: the claims are attached from jwt.decode before jwt.verify is called
authVerify_AttachFirst(c, token, clock) ==
    LET decoded == jwtVerify(token, env.JWT_SECRET, clock)
        c1 == [c EXCEPT !.verifies = @ + 1,
                        !.user = IF IsJwt(token)
                                 THEN [userId |-> token[1].t.payload.userId,
                                       email |-> token[1].t.payload.email,
                                       role |-> token[1].t.payload.role]
                                 ELSE @]
    IN  IF decoded.ok
        THEN CallNext(c1, "authMiddleware")
        ELSE authCatch(c1, decoded)

\* steps 4 to 6 of authMiddleware, inside its try
authVerify(c, token, clock) ==
    LET decoded == jwtVerify(token, env.JWT_SECRET, clock)
        c1 == [c EXCEPT !.verifies = @ + 1]
    IN  IF decoded.ok
        THEN CallNext([c1 EXCEPT !.user =
                          [userId |-> decoded.payload.userId,
                           email |-> decoded.payload.email,
                           role |-> decoded.payload.role]],
                      "authMiddleware")
        ELSE authCatch(c1, decoded)

\* fault: && in place of ||
FormatInvalid_And(parts) == Len(parts) # 2 /\ parts[1] # Str("Bearer")

\* parts.length !== 2 || parts[0] !== "Bearer"
FormatInvalid(parts) == Len(parts) # 2 \/ parts[1] # Str("Bearer")

authMiddleware(c, clock) ==
    LET c0 == Enter(c, "authMiddleware")
        authHeader == c.headers.authorization
    IN  IF ~Truthy(authHeader)
        THEN Respond(c0, "authMiddleware", 401,
                     ErrorBody(Str("No token provided")))
        ELSE LET parts == Split(authHeader.value)
             IN  IF FormatInvalid(parts)
                 THEN Respond(c0, "authMiddleware", 401, ErrorBody(Str(
                          "Token format invalid. Expected: Bearer <token>")))
                 ELSE authVerify(c0, parts[2], clock)

\* fault: the catch block calls next() and control then reaches the last line
optionalAuth_CatchCallsNext(c, clock) ==
    LET c0 == Enter(c, "optionalAuth")
        authHeader == c.headers.authorization
    IN  IF ~Truthy(authHeader)
        THEN CallNext(c0, "optionalAuth")
        ELSE LET parts == Split(authHeader.value)
             IN  IF FormatInvalid(parts)
                 THEN CallNext(c0, "optionalAuth")
                 ELSE LET decoded == jwtVerify(parts[2], env.JWT_SECRET, clock)
                          c1 == [c0 EXCEPT !.verifies = @ + 1]
                      IN  IF decoded.ok
                          THEN CallNext([c1 EXCEPT !.user =
                                   [userId |-> decoded.payload.userId,
                                    email |-> decoded.payload.email,
                                    role |-> decoded.payload.role]],
                                   "optionalAuth")
                          ELSE CallNext(CallNext(c1, "optionalAuth"),
                                        "optionalAuth")

\* fault: optionalAuth reads the claims with jwt.decode, which checks neither
\* the signature nor the expiry
optionalAuth_DecodeOnly(c, clock) ==
    LET c0 == Enter(c, "optionalAuth")
        authHeader == c.headers.authorization
    IN  IF ~Truthy(authHeader)
        THEN CallNext(c0, "optionalAuth")
        ELSE LET parts == Split(authHeader.value)
             IN  IF FormatInvalid(parts)
                 THEN CallNext(c0, "optionalAuth")
                 ELSE IF IsJwt(parts[2])
                 THEN CallNext([c0 EXCEPT !.user =
                          [userId |-> parts[2][1].t.payload.userId,
                           email |-> parts[2][1].t.payload.email,
                           role |-> parts[2][1].t.payload.role]],
                          "optionalAuth")
                 ELSE CallNext(c0, "optionalAuth")

\* optionalAuth: every path ends in one next(); the catch block is empty
optionalAuth(c, clock) ==
    LET c0 == Enter(c, "optionalAuth")
        authHeader == c.headers.authorization
    IN  IF ~Truthy(authHeader)
        THEN CallNext(c0, "optionalAuth")
        ELSE LET parts == Split(authHeader.value)
             IN  IF FormatInvalid(parts)
                 THEN CallNext(c0, "optionalAuth")
                 ELSE LET decoded == jwtVerify(parts[2], env.JWT_SECRET, clock)
                          c1 == [c0 EXCEPT !.verifies = @ + 1]
                      IN  IF decoded.ok
                          THEN CallNext([c1 EXCEPT !.user =
                                   [userId |-> decoded.payload.userId,
                                    email |-> decoded.payload.email,
                                    role |-> decoded.payload.role]],
                                   "optionalAuth")
                          ELSE CallNext(c1, "optionalAuth")

\* fault: an empty allow-list is read as "no role required"
requireRole_EmptyAllowsAll(allowedRoles, c) ==
    LET c0 == Enter(c, "requireRole")
    IN  IF c.user = Undefined
        THEN Respond(c0, "requireRole", 401,
                 ErrorBody(Str("Unauthorized - Authentication required")))
        ELSE IF allowedRoles # <<>> /\ ~Includes(allowedRoles, c.user.role)
        THEN Respond(c0, "requireRole", 403, ErrorBody(
                 Str("Forbidden - Requires one of the following roles: ")
                 \o Join(allowedRoles, ", ")))
        ELSE CallNext(c0, "requireRole")

\* fault: a missing identity is answered like a wrong role
requireRole_MissingIsForbidden(allowedRoles, c) ==
    LET c0 == Enter(c, "requireRole")
    IN  IF c.user = Undefined \/ ~Includes(allowedRoles, c.user.role)
        THEN Respond(c0, "requireRole", 403, ErrorBody(
                 Str("Forbidden - Requires one of the following roles: ")
                 \o Join(allowedRoles, ", ")))
        ELSE CallNext(c0, "requireRole")

\* fault: the 403 is sent without return, and control reaches next()
requireRole_NoReturn(allowedRoles, c) ==
    LET c0 == Enter(c, "requireRole")
    IN  IF c.user = Undefined
        THEN Respond(c0, "requireRole", 401,
                 ErrorBody(Str("Unauthorized - Authentication required")))
        ELSE IF ~Includes(allowedRoles, c.user.role)
        THEN CallNext(Respond(c0, "requireRole", 403, ErrorBody(
                 Str("Forbidden - Requires one of the following roles: ")
                 \o Join(allowedRoles, ", "))), "requireRole")
        ELSE CallNext(c0, "requireRole")

requireRole(allowedRoles, c) ==
    LET c0 == Enter(c, "requireRole")
    IN  IF c.user = Undefined
        THEN Respond(c0, "requireRole", 401,
                 ErrorBody(Str("Unauthorized - Authentication required")))
        ELSE IF ~Includes(allowedRoles, c.user.role)
        THEN Respond(c0, "requireRole", 403, ErrorBody(
                 Str("Forbidden - Requires one of the following roles: ")
                 \o Join(allowedRoles, ", ")))
        ELSE CallNext(c0, "requireRole")

----------------------------------------------------------------------------
(* prisma.user *)

\* the awaited calls of the services, each of which may reject, and
\* jwt.verify, which may throw an error that is none of the library's own
Calls == {"findUnique", "create", "hash", "compare", "verify"}

findUniqueByEmail(email) ==
    IF \E u \in users : u.email = email
    THEN CHOOSE u \in users : u.email = email
    ELSE Null

findUniqueById(id) ==
    IF \E u \in users : u.id = id
    THEN CHOOSE u \in users : u.id = id
    ELSE Null

\* prisma.user.create({data}): the row it stores and returns
createUser(data) ==
    [id |-> nextId, email |-> data.email, password |-> data.password,
     name |-> data.name, role |-> data.role]

----------------------------------------------------------------------------
(* services/authService.ts *)

\* ServiceResponse<T>
Success(data) == [success |-> TRUE, data |-> data]
Failure(error) == [success |-> FALSE, error |-> error]

\* fault: the row is returned as stored
WithoutPassword_Keeps(user) == user

\* const { password, ...userWithoutPassword } = user
WithoutPassword(user) ==
    [f \in DOMAIN user \ {"password"} |-> user[f]]

\* jsonwebtoken reads "7d" as seven days of seconds
SevenDays == 604800

\* fault: the role claim is always the default
generateToken_DefaultRole(user, clock) ==
    LET payload == [userId |-> user.id, email |-> user.email, role |-> "STAFF"]
        expiresIn == IF env.JWT_EXPIRE # Undefined
                     THEN env.JWT_EXPIRE.value ELSE SevenDays
    IN  IF env.JWT_SECRET = Undefined
        THEN [threw |-> TRUE, error |-> "JWT_SECRET is not defined"]
        ELSE [threw |-> FALSE,
              token |-> jwtSign(payload, env.JWT_SECRET, expiresIn, clock)]

\* fault: the token is signed with a literal, not with JWT_SECRET
generateToken_LiteralSecret(user, clock) ==
    LET payload == [userId |-> user.id, email |-> user.email,
                    role |-> IF "role" \in DOMAIN user
                             THEN user.role ELSE "STAFF"]
        expiresIn == IF env.JWT_EXPIRE # Undefined
                     THEN env.JWT_EXPIRE.value ELSE SevenDays
    IN  IF env.JWT_SECRET = Undefined
        THEN [threw |-> TRUE, error |-> "JWT_SECRET is not defined"]
        ELSE [threw |-> FALSE,
              token |-> jwtSign(payload, [value |-> "secret"], expiresIn,
                                clock)]

\* generateToken: the token, or the Error it throws without a secret
generateToken(user, clock) ==
    LET payload == [userId |-> user.id, email |-> user.email,
                    role |-> IF "role" \in DOMAIN user
                             THEN user.role ELSE "STAFF"]
        secret == env.JWT_SECRET
        expiresIn == IF env.JWT_EXPIRE # Undefined
                     THEN env.JWT_EXPIRE.value ELSE SevenDays
    IN  IF secret = Undefined
        THEN [threw |-> TRUE, error |-> "JWT_SECRET is not defined"]
        ELSE [threw |-> FALSE,
              token |-> jwtSign(payload, secret, expiresIn, clock)]

\* fault: the role of the input is ignored, every account is created STAFF
RoleOrDefault_IgnoresInput(data) == "STAFF"

\* data.role || "STAFF"
RoleOrDefault(data) ==
    IF "role" \in DOMAIN data /\ data.role # "" THEN data.role ELSE "STAFF"

\* fault: no lookup of the email before the row is created
authService_register_NoLookup(data, salt, clock) ==
    LET user == createUser([email |-> data.email,
                            password |-> hashPassword(data.password, salt),
                            name |-> data.name,
                            role |-> RoleOrDefault(data)])
        issued == generateToken([id |-> user.id, email |-> user.email,
                                 role |-> user.role], clock)
    IN  [result |-> IF issued.threw
                    THEN Failure("Failed to create user. Please try again.")
                    ELSE Success([user |-> WithoutPassword(user),
                                  token |-> issued.token]),
         users |-> users \cup {user}, nextId |-> nextId + 1]

\* register: its result and the store it leaves; whatever is thrown inside
\* the try block ends in the catch block's result
authService_register(data, salt, clock) ==
    LET existingUser == findUniqueByEmail(data.email)
        caught == [result |->
                      Failure("Failed to create user. Please try again."),
                   users |-> users, nextId |-> nextId]
    IN  IF failing = "findUnique" THEN caught
        ELSE IF existingUser # Null
        THEN [result |-> Failure("Email already exists"),
              users |-> users, nextId |-> nextId]
        ELSE IF failing \in {"hash", "create"} THEN caught
        ELSE LET hashedPassword == hashPassword(data.password, salt)
                 user == createUser([email |-> data.email,
                                     password |-> hashedPassword,
                                     name |-> data.name,
                                     role |-> RoleOrDefault(data)])
                 issued == generateToken([id |-> user.id, email |-> user.email,
                                          role |-> user.role], clock)
             IN  IF issued.threw
                 THEN [result |->
                          Failure("Failed to create user. Please try again."),
                       users |-> users \cup {user}, nextId |-> nextId + 1]
                 ELSE [result |-> Success([user |-> WithoutPassword(user),
                                           token |-> issued.token]),
                       users |-> users \cup {user}, nextId |-> nextId + 1]

\* fault: an unknown email gets a message of its own
authService_login_NamesUnknown(data, clock) ==
    LET user == findUniqueByEmail(data.email)
    IN  IF user = Null
        THEN Failure("User not found")
        ELSE IF ~comparePasswords(data.password, user.password)
        THEN Failure("Invalid credentials")
        ELSE LET issued == generateToken([id |-> user.id, email |-> user.email,
                                          role |-> user.role], clock)
             IN  IF issued.threw
                 THEN Failure("Login failed. Please try again.")
                 ELSE Success([user |-> WithoutPassword(user),
                               token |-> issued.token])

\* fault: no try block, so a rejected call leaves login as an exception
authService_login_NoCatch(data, clock) ==
    LET user == findUniqueByEmail(data.email)
        thrown == [threw |-> TRUE, error |-> failing]
    IN  IF failing = "findUnique" THEN thrown
        ELSE IF user = Null
        THEN Failure("Invalid credentials")
        ELSE IF failing = "compare" THEN thrown
        ELSE IF ~comparePasswords(data.password, user.password)
        THEN Failure("Invalid credentials")
        ELSE LET issued == generateToken([id |-> user.id, email |-> user.email,
                                          role |-> user.role], clock)
             IN  IF issued.threw
                 THEN issued
                 ELSE Success([user |-> WithoutPassword(user),
                               token |-> issued.token])

\* login: whatever is thrown inside the try block ends in the catch block's
\* result
authService_login(data, clock) ==
    LET user == findUniqueByEmail(data.email)
        caught == Failure("Login failed. Please try again.")
    IN  IF failing = "findUnique" THEN caught
        ELSE IF user = Null
        THEN Failure("Invalid credentials")
        ELSE IF failing = "compare" THEN caught
        ELSE IF ~comparePasswords(data.password, user.password)
        THEN Failure("Invalid credentials")
        ELSE LET issued == generateToken([id |-> user.id, email |-> user.email,
                                          role |-> user.role], clock)
             IN  IF issued.threw
                 THEN Failure("Login failed. Please try again.")
                 ELSE Success([user |-> WithoutPassword(user),
                               token |-> issued.token])

----------------------------------------------------------------------------
(* controllers/authController.ts *)

\* register, once the service has returned its result
registerReply(c0, result) ==
    IF ~result.success
    THEN IF result.error = "Email already exists"
         THEN Respond(c0, "register", 409, ErrorBody(Str(result.error)))
         ELSE Respond(c0, "register", 400, ErrorBody(Str(result.error)))
    ELSE Respond(c0, "register", 201, DataBody(result.data))

\* login, once the service has returned its result
loginReply(c0, result) ==
    IF ~result.success
    THEN Respond(c0, "login", 401, ErrorBody(Str(result.error)))
    ELSE Respond(c0, "login", 200, DataBody(result.data))

\* fault: every failure of the service is answered as a conflict
authController_register_AllConflicts(c, salt, clock) ==
    LET c0 == Enter(c, "register")
        out == authService_register(c.body, salt, clock)
        result == out.result
    IN  [users |-> out.users, nextId |-> out.nextId,
         req |-> IF ~result.success
                 THEN Respond(c0, "register", 409,
                              ErrorBody(Str(result.error)))
                 ELSE Respond(c0, "register", 201, DataBody(result.data))]

\* register: the request after the handler, and the store the service left
authController_register(c, salt, clock) ==
    LET c0 == Enter(c, "register")
        out == authService_register(c.body, salt, clock)
        result == out.result
    IN  [users |-> out.users, nextId |-> out.nextId,
         req |-> registerReply(c0, result)]

authController_login(c, clock) ==
    LET c0 == Enter(c, "login")
        result == authService_login(c.body, clock)
    IN  loginReply(c0, result)

\* fault: a token whose account is gone is treated as unauthenticated
authController_me_DeletedIs401(c) ==
    LET c0 == Enter(c, "me")
    IN  IF c.user = Undefined
        THEN Respond(c0, "me", 500,
                     ErrorBody(Str("Failed to get user information")))
        ELSE LET user == findUniqueById(c.user.userId)
             IN  IF user = Null
                 THEN Respond(c0, "me", 401, ErrorBody(Str("Invalid token")))
                 ELSE Respond(c0, "me", 200,
                              DataBody([user |-> WithoutPassword(user)]))

authController_me(c) ==
    LET c0 == Enter(c, "me")
    IN  IF c.user = Undefined \/ failing = "findUnique"
        THEN \* req.user!.userId throws a TypeError, or findUnique rejects:
             \* both are caught below
             Respond(c0, "me", 500,
                     ErrorBody(Str("Failed to get user information")))
        ELSE LET user == findUniqueById(c.user.userId)
             IN  IF user = Null
                 THEN Respond(c0, "me", 404, ErrorBody(Str("User not found")))
                 ELSE Respond(c0, "me", 200,
                              DataBody([user |-> WithoutPassword(user)]))

authController_logout(c) ==
    Respond(Enter(c, "logout"), "logout", 200,
            MessageBody(Str("Logged out successfully")))

\* a protected handler of a role-gated route (menuController.delete, ...)
protectedHandler(c) ==
    Respond(Enter(c, "handler"), "handler", 200,
            MessageBody(Str("handled")))

\* a handler behind optionalAuth (menuController.list): it reads req.user
\* and serves both kinds of caller
menuController_list(c) ==
    Respond(Enter(c, "list"), "list", 200,
            MessageBody(Str(IF c.user # Undefined
                            THEN "menu with favorites" ELSE "menu")))

----------------------------------------------------------------------------
(* routes/authRoutes.ts and the role-gated routes of the middleware's usage *)

\* router.get("/me", authMiddleware, authController.me)
Route_me(c, clock) ==
    LET c1 == authMiddleware(c, clock)
    IN  IF Passed(c1, "authMiddleware") THEN authController_me(c1) ELSE c1

\* router.post("/logout", authMiddleware, authController.logout)
Route_logout(c, clock) ==
    LET c1 == authMiddleware(c, clock)
    IN  IF Passed(c1, "authMiddleware") THEN authController_logout(c1) ELSE c1

\* fault: the handler is reached whatever requireRole did
Route_gated_HandlerAlways(allowedRoles, c, clock) ==
    LET c1 == authMiddleware(c, clock)
        c2 == IF Passed(c1, "authMiddleware")
              THEN requireRole(allowedRoles, c1) ELSE c1
    IN  IF Passed(c1, "authMiddleware") THEN protectedHandler(c2) ELSE c2

\* router.delete('/menu/:id', authMiddleware, requireRole([...]), handler)
Route_gated(allowedRoles, c, clock) ==
    LET c1 == authMiddleware(c, clock)
        c2 == IF Passed(c1, "authMiddleware")
              THEN requireRole(allowedRoles, c1) ELSE c1
    IN  IF Passed(c2, "requireRole") THEN protectedHandler(c2) ELSE c2

\* a route that puts requireRole before any authentication gate
Route_misordered(allowedRoles, c) ==
    LET c1 == requireRole(allowedRoles, c)
    IN  IF Passed(c1, "requireRole") THEN protectedHandler(c1) ELSE c1

\* router.get('/menu', optionalAuth, menuController.list)
Route_optional(c, clock) ==
    LET c1 == optionalAuth(c, clock)
    IN  IF Passed(c1, "optionalAuth") THEN menuController_list(c1) ELSE c1

----------------------------------------------------------------------------
(* validators/authValidator.ts and middleware/validationMiddleware.ts *)

MinPassword == 6
MinName == 2

\* z.string().email(): the addresses of the model that have the format
IsEmail(s) == s \in Emails

\* one entry of the errors list: issue.path joined, issue.message, issue.code
Issue(field, message, code) ==
    [field |-> field, message |-> Str(message), code |-> code]

\* email: z.string({required_error}).email({message})
emailIssues(body) ==
    IF "email" \notin DOMAIN body
    THEN <<Issue("email", "Email is required", "invalid_type")>>
    ELSE IF ~IsEmail(body.email)
    THEN <<Issue("email", "Invalid email format", "invalid_string")>>
    ELSE <<>>

\* password: z.string({required_error}).min(6, {message})
passwordIssues(body) ==
    IF "password" \notin DOMAIN body
    THEN <<Issue("password", "Password is required", "invalid_type")>>
    ELSE IF Len(body.password) < MinPassword
    THEN <<Issue("password", "Password must be at least 6 characters long",
                 "too_small")>>
    ELSE <<>>

\* name: z.string({required_error}).min(2, {message})
nameIssues(body) ==
    IF "name" \notin DOMAIN body
    THEN <<Issue("name", "Name is required", "invalid_type")>>
    ELSE IF Len(body.name) < MinName
    THEN <<Issue("name", "Name must be at least 2 characters long",
                 "too_small")>>
    ELSE <<>>

\* role: z.enum(["ADMIN", "MANAGER", "STAFF", "CHEF"], {errorMap}).optional()
roleIssues(body) ==
    IF "role" \in DOMAIN body /\ body.role \notin Roles
    THEN <<Issue("role",
                 "Role must be one of: ADMIN, MANAGER, STAFF, or CHEF",
                 "invalid_enum_value")>>
    ELSE <<>>

\* schema.parse(body): returns, or throws a ZodError that carries the issues
\* of every field in the order of the schema's keys
SchemaResult(issues) ==
    [threw |-> IF issues = <<>> THEN "nothing" ELSE "ZodError",
     issues |-> issues]

\* fault: the role is any string, role: z.string().optional()
registerSchemaParse_AnyRole(body) ==
    SchemaResult(emailIssues(body) \o passwordIssues(body)
                 \o nameIssues(body))

\* registerSchema.parse(body)
registerSchemaParse(body) ==
    SchemaResult(emailIssues(body) \o passwordIssues(body)
                 \o nameIssues(body) \o roleIssues(body))

\* loginSchema.parse(body): the base schema
loginSchemaParse(body) ==
    SchemaResult(emailIssues(body) \o passwordIssues(body))

\* schema.parse(body), for the schemas the routes pass to validate
schemaParse(schema, body) ==
    IF schema = "registerSchema" THEN registerSchemaParse(body)
    ELSE loginSchemaParse(body)

\* validate(schema): parses req.body and calls next(); a ZodError is answered
\* 400 with the issues, anything else thrown is answered 500. The parsed
\* value is dropped: the next layer reads req.body as it was sent
validate(schema, c) ==
    LET c0 == Enter(c, "validate")
        parsed == schemaParse(schema, c.body)
    IN  IF parsed.threw = "nothing" THEN CallNext(c0, "validate")
        ELSE IF parsed.threw = "ZodError"
        THEN Respond(c0, "validate", 400,
                     [status |-> "error",
                      message |-> Str("Validation failed"),
                      errors |-> parsed.issues])
        ELSE Respond(c0, "validate", 500,
                     ErrorBody(Str("Internal server error during validation")))

\* router.post("/register", validate(registerSchema), authController.register)
Route_register(c, salt, clock) ==
    LET c1 == validate("registerSchema", c)
    IN  IF Passed(c1, "validate")
        THEN authController_register(c1, salt, clock)
        ELSE [users |-> users, nextId |-> nextId, req |-> c1]

----------------------------------------------------------------------------
(* Clients: the bodies and headers they send *)

\* the roles a register body names, when it names one
BodyRoles == {"ADMIN"}

RegisterBodies ==
    [email : Emails, password : Passwords, name : Names]
    \cup [email : Emails, password : Passwords, name : Names,
          role : BodyRoles]

LoginBodies == [email : Emails, password : Passwords]

\* a held token with its payload altered and its signature kept
TamperRole(token) ==
    <<Jwt([token[1].t EXCEPT !.payload.role = "ADMIN"])>>
TamperExp(token) ==
    <<Jwt([token[1].t EXCEPT !.payload.exp = @ + 1])>>
\* the same claims, expiry included, signed by a stranger
Resign(token) ==
    <<Jwt([payload |-> token[1].t.payload,
           sig |-> HS256(token[1].t.payload, AttackerSecret)])>>
\* a token for the same claims, never expiring in the run, signed by a
\* stranger
Forge(token) ==
    LET p == [token[1].t.payload EXCEPT !.exp = MaxTime + 1]
    IN  <<Jwt([payload |-> p, sig |-> HS256(p, AttackerSecret)])>>

\* what a client puts after "Bearer "
ClientTokens ==
    {<<>>, Str("garbage")}
    \cup (IF held = <<>> THEN {}
          ELSE {held, TamperRole(held), TamperExp(held), Forge(held),
                Resign(held)})

ClientHeaders == {NoHeader} \cup {Bearer(t) : t \in ClientTokens}

\* the allow-lists of the role-gated routes
GatedLists == {<<"ADMIN">>, <<"STAFF", "MANAGER">>}

----------------------------------------------------------------------------
(* The lifecycle specification *)

Idle == [route |-> "idle", allowed |-> <<>>, before |-> {},
         req |-> NewRequest(NoHeader, Undefined)]

Handled(route, allowedRoles, c) ==
    [route |-> route, allowed |-> allowedRoles, before |-> users, req |-> c]

Init ==
    /\ users = {}
    /\ nextId = 1
    /\ now = 0
    /\ env = [JWT_SECRET |-> ServerSecret,
              JWT_EXPIRE |-> [value |-> ExpireTicks]]
    /\ failing = "none"
    /\ proc = Listening
    /\ inflight = <<>>
    /\ held = <<>>
    /\ registered = {}
    /\ last = Idle

\* the token of a success response, which the client may keep
Keep(c, keep) ==
    IF keep /\ c.sent # <<>> /\ c.sent[1].body.status = "success"
    THEN c.sent[1].body.data.token
    ELSE held

\* POST /auth/register
Register(data, salt, keep) ==
    LET out == authController_register(NewRequest(NoHeader, data), salt, now)
    IN  /\ last = Idle
        /\ out.nextId <= MaxUsers + 1
        /\ users' = out.users
        /\ nextId' = out.nextId
        /\ held' = Keep(out.req, keep)
        /\ registered' = IF out.req.sent[1].status = 201
                         THEN registered \cup {[email |-> data.email,
                                                password |-> data.password]}
                         ELSE registered
        /\ last' = Handled("register", <<>>, out.req)
        /\ UNCHANGED <<now, env, failing, proc, inflight>>

\* POST /auth/login
Login(data, keep) ==
    LET c == authController_login(NewRequest(NoHeader, data), now)
    IN  /\ last = Idle
        /\ held' = Keep(c, keep)
        /\ last' = Handled("login", <<>>, c)
        /\ UNCHANGED <<users, nextId, now, env, failing, proc, inflight,
                       registered>>

\* GET /auth/me
Me(h) ==
    /\ last = Idle
    /\ last' = Handled("me", <<>>, Route_me(NewRequest(h, Undefined), now))
    /\ UNCHANGED <<users, nextId, now, env, failing, proc, inflight, held,
                   registered>>

\* fault: logout rotates the signing secret, which ends every session
Logout_RotatesSecret(h) ==
    /\ last = Idle
    /\ last' = Handled("logout", <<>>,
                       Route_logout(NewRequest(h, Undefined), now))
    /\ env' = IF Passed(last'.req, "authMiddleware")
              THEN [env EXCEPT !.JWT_SECRET = [value |-> "rotated"]]
              ELSE env
    /\ UNCHANGED <<users, nextId, now, failing, proc, inflight, held,
                   registered>>

\* POST /auth/logout
Logout(h) ==
    /\ last = Idle
    /\ last' = Handled("logout", <<>>,
                       Route_logout(NewRequest(h, Undefined), now))
    /\ UNCHANGED <<users, nextId, now, env, failing, proc, inflight, held,
                   registered>>

\* a request to a route behind authMiddleware and requireRole(allowedRoles)
Gated(h, allowedRoles) ==
    /\ last = Idle
    /\ last' = Handled("gated", allowedRoles,
                       Route_gated(allowedRoles, NewRequest(h, Undefined),
                                   now))
    /\ UNCHANGED <<users, nextId, now, env, failing, proc, inflight, held,
                   registered>>

\* a request to a route whose requireRole has no authentication gate before it
Misordered(h, allowedRoles) ==
    /\ last = Idle
    /\ last' = Handled("misordered", allowedRoles,
                       Route_misordered(allowedRoles,
                                        NewRequest(h, Undefined)))
    /\ UNCHANGED <<users, nextId, now, env, failing, proc, inflight, held,
                   registered>>

\* a request to a route behind optionalAuth
Optional(h) ==
    /\ last = Idle
    /\ last' = Handled("optional", <<>>,
                       Route_optional(NewRequest(h, Undefined), now))
    /\ UNCHANGED <<users, nextId, now, env, failing, proc, inflight, held,
                   registered>>

\* the response is on the wire and the request, with its req.user, is gone
EndRequest ==
    /\ last # Idle
    /\ last' = Idle
    /\ UNCHANGED <<users, nextId, now, env, failing, proc, inflight, held,
                   registered>>

\* the account is deleted from the store, outside this API
DeleteUser(u) ==
    /\ last = Idle
    /\ users' = users \ {u}
    /\ registered' = {r \in registered : r.email # u.email}
    /\ UNCHANGED <<nextId, now, env, failing, proc, inflight, held, last>>

\* a second passes
Tick ==
    /\ last = Idle
    /\ now < MaxTime
    /\ now' = now + 1
    /\ UNCHANGED <<users, nextId, env, failing, proc, inflight, held,
                   registered, last>>

\* the store or the hasher starts to reject one of its calls, or recovers
Outage(call) ==
    /\ last = Idle
    /\ call # failing
    /\ failing' = call
    /\ UNCHANGED <<users, nextId, now, env, proc, inflight, held, registered,
                   last>>

\* server.ts, line 1: import app from './app' evaluates app.ts and, through
\* the routes, the controller, the service and the middleware; none of them
\* imports config/env, so envSchema.parse does not run
ImportApp ==
    /\ proc.state = "start"
    /\ proc' = [proc EXCEPT !.state = "imported"]
    /\ UNCHANGED <<users, nextId, now, env, failing, inflight, held,
                   registered, last>>

\* dotenv.config(): a variable of .env is set unless the environment has it
LoadDotenv ==
    /\ proc.state = "imported"
    /\ proc' = [proc EXCEPT !.state = "configured"]
    /\ env' = IF env.JWT_SECRET = Undefined
              THEN [env EXCEPT !.JWT_SECRET = proc.dotenv]
              ELSE env
    /\ UNCHANGED <<users, nextId, now, failing, inflight, held, registered,
                   last>>

\* startServer(): connectDatabase(), then app.listen; a failed connect is
\* caught and ends the process with exit code 1
StartServer(connected) ==
    /\ proc.state = "configured"
    /\ proc' = [proc EXCEPT !.state = IF connected THEN "listening"
                                      ELSE "exited"]
    /\ UNCHANGED <<users, nextId, now, env, failing, inflight, held,
                   registered, last>>

Next ==
    \/ \E data \in RegisterBodies, salt \in Salts, keep \in BOOLEAN :
           Register(data, salt, keep)
    \/ \E data \in LoginBodies, keep \in BOOLEAN : Login(data, keep)
    \/ \E h \in ClientHeaders : Me(h)
    \/ \E h \in ClientHeaders : Logout(h)
    \/ \E h \in ClientHeaders, allowedRoles \in GatedLists :
           Gated(h, allowedRoles)
    \/ \E h \in {NoHeader, Bearer(held)}, allowedRoles \in GatedLists :
           Misordered(h, allowedRoles)
    \/ EndRequest
    \/ \E u \in users : DeleteUser(u)
    \/ Tick

Spec == Init /\ [][Next]_vars

----------------------------------------------------------------------------
(* The gate specification: the two gates on every header shape and every   *)
(* allow-list, for a token the service issued at some earlier time         *)

RECURSIVE SeqsUpTo(_, _)
SeqsUpTo(S, n) ==
    IF n = 0 THEN {<<>>}
    ELSE LET shorter == SeqsUpTo(S, n - 1)
         IN  shorter \cup {Append(q, x) : q \in shorter, x \in S}

\* the tokens generateToken signs for an identity of the store
IssuedTokens(clock) ==
    {jwtSign([userId |-> 1, email |-> "a@x.com", role |-> r],
             env.JWT_SECRET, env.JWT_EXPIRE.value, iat) :
         r \in Roles, iat \in 0..clock}

GateChunks == {SP, Word("Bearer"), Word("bearer"), held[1]}

GateHeaders ==
    {NoHeader} \cup {Header(v) : v \in SeqsUpTo(GateChunks, MaxHeaderLen)}

AllowLists == SeqsUpTo(Roles, MaxAllowed)

\* an account was registered, its token kept, and the account deleted
InitGate ==
    /\ users = {}
    /\ nextId = 2
    /\ now \in 0..MaxTime
    /\ env = [JWT_SECRET |-> ServerSecret,
              JWT_EXPIRE |-> [value |-> ExpireTicks]]
    /\ failing = "none"
    /\ proc = Listening
    /\ inflight = <<>>
    /\ held \in IssuedTokens(now)
    /\ registered = {}
    /\ last = Idle

NextGate ==
    \/ \E h \in GateHeaders : Logout(h)
    \/ \E h \in {NoHeader, Bearer(held)}, allowedRoles \in AllowLists :
           Gated(h, allowedRoles)
    \/ \E h \in {NoHeader, Bearer(held)}, allowedRoles \in AllowLists :
           Misordered(h, allowedRoles)
    \/ \E h \in GateHeaders \cup {Bearer(Forge(held)),
                                   Bearer(TamperRole(held))} : Optional(h)
    \/ EndRequest
    \/ Tick

SpecGate == InitGate /\ [][NextGate]_vars

----------------------------------------------------------------------------
(* The token specification: one account of any id, email and role, any     *)
(* JWT_EXPIRE, and the tokens its logins are given, presented over time    *)
(* to GET /auth/me and POST /auth/logout                                   *)

\* process.env.JWT_EXPIRE: unset, or a timespan of so many seconds
TimeToLives == {Undefined} \cup {[value |-> t] : t \in 1..ExpireTicks}

InitToken ==
    /\ \E id \in 1..MaxUsers, email \in Emails, role \in Roles :
           /\ users = {[id |-> id, email |-> email,
                        password |-> hashPassword("secret1", "salt1"),
                        name |-> "Al", role |-> role]}
           /\ nextId = id + 1
           /\ registered = {[email |-> email, password |-> "secret1"]}
    /\ now \in 0..MaxTime
    /\ env \in [JWT_SECRET : {ServerSecret}, JWT_EXPIRE : TimeToLives]
    /\ failing = "none"
    /\ proc = Listening
    /\ inflight = <<>>
    /\ held = <<>>
    /\ last = Idle

NextToken ==
    \/ \E data \in LoginBodies, keep \in BOOLEAN : Login(data, keep)
    \/ \E h \in {NoHeader, Bearer(held)} : Me(h)
    \/ \E h \in {NoHeader, Bearer(held)} : Logout(h)
    \/ EndRequest
    \/ Tick

SpecToken == InitToken /\ [][NextToken]_vars

----------------------------------------------------------------------------
(* The outage specification: register, login and GET /auth/me while a call *)
(* of the store or of the hasher rejects, or with JWT_SECRET not set (no   *)
(* module of the server reads config/env, so nothing stops such a start)   *)

InitOutage ==
    /\ users = {}
    /\ nextId = 1
    /\ now = 0
    /\ env \in [JWT_SECRET : {ServerSecret, Undefined},
                 JWT_EXPIRE : {[value |-> ExpireTicks]}]
    /\ failing = "none"
    /\ proc = Listening
    /\ inflight = <<>>
    /\ held = <<>>
    /\ registered = {}
    /\ last = Idle

NextOutage ==
    \/ \E data \in RegisterBodies, salt \in Salts, keep \in BOOLEAN :
           Register(data, salt, keep)
    \/ \E data \in LoginBodies, keep \in BOOLEAN : Login(data, keep)
    \/ \E h \in {NoHeader, Bearer(held)} : Me(h)
    \/ EndRequest
    \/ \E call \in Calls \cup {"none"} : Outage(call)

SpecOutage == InitOutage /\ [][NextOutage]_vars

----------------------------------------------------------------------------
(* POST /auth/register with the bodies a client can send, valid or not *)

\* roles a body may name that are not roles of the system
OutsideRoles == {"OWNER", "admin", ""}

\* what a client may put in each field; a field may also be left out
RawEmails == Emails \cup {"not-an-email"}
RawPasswords == {"secret1", "short"}
RawNames == Names \cup {"A"}

RawRegisterBodies ==
    [email : RawEmails, password : RawPasswords, name : RawNames]
    \cup [email : RawEmails, password : RawPasswords, name : RawNames,
          role : Roles \cup OutsideRoles]
    \cup [email : RawEmails, password : RawPasswords,
          role : Roles \cup OutsideRoles]

\* POST /auth/register through the whole route
PostRegister(data, salt) ==
    LET out == Route_register(NewRequest(NoHeader, data), salt, now)
    IN  /\ last = Idle
        /\ out.nextId <= MaxUsers + 1
        /\ users' = out.users
        /\ nextId' = out.nextId
        /\ registered' = IF out.req.sent[1].status = 201
                         THEN registered \cup {[email |-> data.email,
                                                password |-> data.password]}
                         ELSE registered
        /\ last' = Handled("register", <<>>, out.req)
        /\ UNCHANGED <<now, env, failing, proc, inflight, held>>

NextValidate ==
    \/ \E data \in RawRegisterBodies, salt \in Salts : PostRegister(data, salt)
    \/ EndRequest
    \/ \E u \in users : DeleteUser(u)

SpecValidate == Init /\ [][NextValidate]_vars

----------------------------------------------------------------------------
(* The boot specification: the process from its start, beside any .env     *)
(* file and in any environment, and the requests it serves once it listens *)

InitBoot ==
    /\ users = {}
    /\ nextId = 1
    /\ now = 0
    /\ env \in [JWT_SECRET : {ServerSecret, Undefined},
                 JWT_EXPIRE : {[value |-> ExpireTicks]}]
    /\ failing = "none"
    /\ proc \in [state : {"start"}, dotenv : {ServerSecret, Undefined}]
    /\ inflight = <<>>
    /\ held = <<>>
    /\ registered = {}
    /\ last = Idle

NextBoot ==
    \/ ImportApp
    \/ LoadDotenv
    \/ \E connected \in BOOLEAN : StartServer(connected)
    \/ \E data \in RegisterBodies, salt \in Salts, keep \in BOOLEAN :
           proc.state = "listening" /\ Register(data, salt, keep)
    \/ \E data \in LoginBodies, keep \in BOOLEAN :
           proc.state = "listening" /\ Login(data, keep)
    \/ \E h \in {NoHeader, Bearer(held)} :
           proc.state = "listening" /\ Me(h)
    \/ proc.state = "listening" /\ EndRequest

SpecBoot == InitBoot /\ [][NextBoot]_vars

----------------------------------------------------------------------------
(* The concurrent specification: several requests in flight, each one      *)
(* suspended at the calls its handler awaits; what lies between two awaits *)
(* runs without interruption on the one thread of the event loop           *)

Slots == 1..MaxInflight

Free == [pc |-> "free"]

\* a request whose handler waits for the call named by pc
Suspended(route, pc, c) ==
    [pc |-> pc, route |-> route, at |-> now, req |-> c, local |-> Undefined]

\* the handler has answered and returned
Finished(r, c) == [r EXCEPT !.pc = "done", !.req = c]

Busy(i) == inflight[i].pc \notin {"free", "done"}

\* the registers that may still create a row
RegistersInFlight ==
    Cardinality({j \in Slots : Busy(j) /\ inflight[j].route = "register"})

\* fault: the store accepts a second row for an email
UniqueConstraintFails_Never(email) == FALSE

\* prisma.user.create rejects a row whose email the table already holds
\* (User.email is unique)
UniqueConstraintFails(email) == \E u \in users : u.email = email

\* register, resumed when findUnique settles
register_afterLookup(r) ==
    LET data == r.req.body
    IN  IF failing = "findUnique"
        THEN Finished(r, registerReply(r.req,
                 Failure("Failed to create user. Please try again.")))
        ELSE IF findUniqueByEmail(data.email) # Null
        THEN Finished(r, registerReply(r.req,
                 Failure("Email already exists")))
        ELSE [r EXCEPT !.pc = "hash"]

\* register, resumed when bcrypt.hash settles
register_afterHash(r, salt) ==
    IF failing = "hash"
    THEN Finished(r, registerReply(r.req,
             Failure("Failed to create user. Please try again.")))
    ELSE [r EXCEPT !.pc = "create",
                   !.local = [hashedPassword |->
                                 hashPassword(r.req.body.password, salt)]]

\* register, resumed when prisma.user.create settles: the slot, and the store
register_afterCreate(r) ==
    LET data == r.req.body
        user == createUser([email |-> data.email,
                            password |-> r.local.hashedPassword,
                            name |-> data.name,
                            role |-> RoleOrDefault(data)])
        issued == generateToken([id |-> user.id, email |-> user.email,
                                 role |-> user.role], now)
    IN  IF failing = "create" \/ UniqueConstraintFails(data.email)
        THEN [slot |-> Finished(r, registerReply(r.req,
                          Failure("Failed to create user. Please try again."))),
              users |-> users, nextId |-> nextId]
        ELSE [slot |-> Finished(r, registerReply(r.req,
                          IF issued.threw
                          THEN Failure(
                                 "Failed to create user. Please try again.")
                          ELSE Success([user |-> WithoutPassword(user),
                                        token |-> issued.token]))),
              users |-> users \cup {user}, nextId |-> nextId + 1]

\* login, resumed when findUnique settles
login_afterLookup(r) ==
    LET user == findUniqueByEmail(r.req.body.email)
    IN  IF failing = "findUnique"
        THEN Finished(r, loginReply(r.req,
                 Failure("Login failed. Please try again.")))
        ELSE IF user = Null
        THEN Finished(r, loginReply(r.req, Failure("Invalid credentials")))
        ELSE [r EXCEPT !.pc = "compare", !.local = [user |-> user]]

\* fault: no try block in login, so a rejected compare rejects the handler
login_afterCompare_NoCatch(r) ==
    LET user == r.local.user
        issued == generateToken([id |-> user.id, email |-> user.email,
                                 role |-> user.role], now)
    IN  IF failing = "compare"
        THEN [r EXCEPT !.pc = "rejected"]
        ELSE IF ~comparePasswords(r.req.body.password, user.password)
        THEN Finished(r, loginReply(r.req, Failure("Invalid credentials")))
        ELSE Finished(r, loginReply(r.req,
                 IF issued.threw
                 THEN Failure("Login failed. Please try again.")
                 ELSE Success([user |-> WithoutPassword(user),
                               token |-> issued.token])))

\* login, resumed when bcrypt.compare settles
login_afterCompare(r) ==
    LET user == r.local.user
        issued == generateToken([id |-> user.id, email |-> user.email,
                                 role |-> user.role], now)
    IN  IF failing = "compare"
        THEN Finished(r, loginReply(r.req,
                 Failure("Login failed. Please try again.")))
        ELSE IF ~comparePasswords(r.req.body.password, user.password)
        THEN Finished(r, loginReply(r.req, Failure("Invalid credentials")))
        ELSE Finished(r, loginReply(r.req,
                 IF issued.threw
                 THEN Failure("Login failed. Please try again.")
                 ELSE Success([user |-> WithoutPassword(user),
                               token |-> issued.token])))

\* fault: the identity is kept in one variable of the module, which the gate
\* of every request overwrites
me_afterLookup_SharedIdentity(r) ==
    LET gated == {j \in Slots : /\ inflight[j].pc # "free"
                                /\ inflight[j].route = "me"
                                /\ inflight[j].req.user # Undefined}
        latest == CHOOSE j \in gated :
                      \A k \in gated : inflight[k].at <= inflight[j].at
    IN  Finished(r, authController_me(
                        [r.req EXCEPT !.user = inflight[latest].req.user]))

\* GET /auth/me, resumed when findUnique settles: the handler reads req.user
\* of its own request
me_afterLookup(r) == Finished(r, authController_me(r.req))

\* an async handler that rejects leaves its request unanswered, and the
\* unhandled rejection ends the process
Settle(i, r) ==
    /\ inflight' = [inflight EXCEPT ![i] = r]
    /\ proc' = IF r.pc = "rejected" THEN [proc EXCEPT !.state = "exited"]
               ELSE proc

\* POST /auth/register arrives and the service awaits the lookup
ArriveRegister(i, data) ==
    /\ proc.state = "listening"
    /\ inflight[i] = Free
    /\ nextId + RegistersInFlight <= MaxUsers
    /\ inflight' = [inflight EXCEPT ![i] =
           Suspended("register", "findUnique",
                     Enter(NewRequest(NoHeader, data), "register"))]
    /\ UNCHANGED <<users, nextId, now, env, failing, proc, held, registered,
                   last>>

RegisterLookup(i) ==
    /\ proc.state = "listening"
    /\ inflight[i].pc = "findUnique"
    /\ inflight[i].route = "register"
    /\ Settle(i, register_afterLookup(inflight[i]))
    /\ UNCHANGED <<users, nextId, now, env, failing, held, registered, last>>

RegisterHash(i, salt) ==
    /\ proc.state = "listening"
    /\ inflight[i].pc = "hash"
    /\ Settle(i, register_afterHash(inflight[i], salt))
    /\ UNCHANGED <<users, nextId, now, env, failing, held, registered, last>>

RegisterCreate(i) ==
    LET out == register_afterCreate(inflight[i])
    IN  /\ proc.state = "listening"
        /\ inflight[i].pc = "create"
        /\ Settle(i, out.slot)
        /\ users' = out.users
        /\ nextId' = out.nextId
        /\ UNCHANGED <<now, env, failing, held, registered, last>>

\* POST /auth/login arrives and the service awaits the lookup
ArriveLogin(i, data) ==
    /\ proc.state = "listening"
    /\ inflight[i] = Free
    /\ inflight' = [inflight EXCEPT ![i] =
           Suspended("login", "findUnique",
                     Enter(NewRequest(NoHeader, data), "login"))]
    /\ UNCHANGED <<users, nextId, now, env, failing, proc, held, registered,
                   last>>

LoginLookup(i) ==
    /\ proc.state = "listening"
    /\ inflight[i].pc = "findUnique"
    /\ inflight[i].route = "login"
    /\ Settle(i, login_afterLookup(inflight[i]))
    /\ UNCHANGED <<users, nextId, now, env, failing, held, registered, last>>

LoginCompare(i) ==
    /\ proc.state = "listening"
    /\ inflight[i].pc = "compare"
    /\ Settle(i, login_afterCompare(inflight[i]))
    /\ UNCHANGED <<users, nextId, now, env, failing, held, registered, last>>

\* GET /auth/me arrives: authMiddleware runs to its end, and the handler, if
\* reached, awaits the lookup
ArriveMe(i, h) ==
    LET c1 == authMiddleware(NewRequest(h, Undefined), now)
    IN  /\ proc.state = "listening"
        /\ inflight[i] = Free
        /\ inflight' = [inflight EXCEPT ![i] =
               IF Passed(c1, "authMiddleware")
               THEN Suspended("me", "findUniqueById", c1)
               ELSE Finished(Suspended("me", "done", c1), c1)]
        /\ UNCHANGED <<users, nextId, now, env, failing, proc, held,
                       registered, last>>

MeLookup(i) ==
    /\ proc.state = "listening"
    /\ inflight[i].pc = "findUniqueById"
    /\ Settle(i, me_afterLookup(inflight[i]))
    /\ UNCHANGED <<users, nextId, now, env, failing, held, registered, last>>

\* POST /auth/logout arrives: the gate and the handler await nothing
ArriveLogout(i, h) ==
    LET c1 == Route_logout(NewRequest(h, Undefined), now)
    IN  /\ proc.state = "listening"
        /\ inflight[i] = Free
        /\ inflight' = [inflight EXCEPT ![i] =
               Finished(Suspended("logout", "done", c1), c1)]
        /\ UNCHANGED <<users, nextId, now, env, failing, proc, held,
                       registered, last>>

\* the response has reached the client, which may keep its token
Close(i, keep) ==
    /\ inflight[i].pc = "done"
    /\ inflight' = [inflight EXCEPT ![i] = Free]
    /\ held' = IF inflight[i].route \in {"register", "login"}
               THEN Keep(inflight[i].req, keep) ELSE held
    /\ UNCHANGED <<users, nextId, now, env, failing, proc, registered, last>>

(* Registers in flight together: their lookups, hashes and creates in any *)
(* order                                                                   *)

ConcRegisterBodies ==
    {b \in RegisterBodies : b.password = "secret1" /\ "role" \notin DOMAIN b}

InitConc ==
    /\ users = {}
    /\ nextId = 1
    /\ now = 0
    /\ env = [JWT_SECRET |-> ServerSecret,
              JWT_EXPIRE |-> [value |-> ExpireTicks]]
    /\ failing = "none"
    /\ proc = Listening
    /\ inflight = [i \in Slots |-> Free]
    /\ held = <<>>
    /\ registered = {}
    /\ last = Idle

NextConc ==
    \/ \E i \in Slots, data \in ConcRegisterBodies : ArriveRegister(i, data)
    \/ \E i \in Slots : RegisterLookup(i)
    \/ \E i \in Slots, salt \in Salts : RegisterHash(i, salt)
    \/ \E i \in Slots : RegisterCreate(i)
    \/ \E i \in Slots, keep \in BOOLEAN : Close(i, keep)

SpecConc == InitConc /\ [][NextConc]_vars

(* Gated requests of two accounts in flight together, while time passes *)

\* the accounts of the store, registered at time 0
IsoUsers ==
    {[id |-> 1, email |-> "a@x.com",
      password |-> hashPassword("secret1", "salt1"), name |-> "Al",
      role |-> "STAFF"],
     [id |-> 2, email |-> "b@x.com",
      password |-> hashPassword("secret1", "salt1"), name |-> "Al",
      role |-> "ADMIN"]}

\* no header, or the token one of the accounts was given at time 0
IsoHeaders ==
    {NoHeader}
    \cup {Bearer(jwtSign([userId |-> u.id, email |-> u.email,
                          role |-> u.role],
                         env.JWT_SECRET, env.JWT_EXPIRE.value, 0)) :
              u \in IsoUsers}

InitIso ==
    /\ users = IsoUsers
    /\ nextId = 3
    /\ now = 0
    /\ env = [JWT_SECRET |-> ServerSecret,
              JWT_EXPIRE |-> [value |-> ExpireTicks]]
    /\ failing = "none"
    /\ proc = Listening
    /\ inflight = [i \in Slots |-> Free]
    /\ held = <<>>
    /\ registered = {[email |-> u.email, password |-> "secret1"] :
                         u \in IsoUsers}
    /\ last = Idle

NextIso ==
    \/ \E i \in Slots, h \in IsoHeaders : ArriveMe(i, h)
    \/ \E i \in Slots, h \in IsoHeaders : ArriveLogout(i, h)
    \/ \E i \in Slots : MeLookup(i)
    \/ \E i \in Slots : Close(i, FALSE)
    \/ Tick

SpecIso == InitIso /\ [][NextIso]_vars

(* The four routes in flight together while calls of the store, of the    *)
(* hasher and of the token codec fail; every awaited call settles, by      *)
(* resolving or by rejecting, and the event loop then resumes its handler  *)

ConcLoginBodies == {b \in LoginBodies : b.password = "secret1"}
LiveRegisterBodies == {b \in ConcRegisterBodies : b.email = "a@x.com"}
LiveLoginBodies == {b \in ConcLoginBodies : b.email = "a@x.com"}
LiveHeaders == {NoHeader, Bearer(held)}

InitLive ==
    /\ users = {}
    /\ nextId = 1
    /\ now = 0
    /\ env \in [JWT_SECRET : {ServerSecret, Undefined},
                 JWT_EXPIRE : {[value |-> ExpireTicks]}]
    /\ failing = "none"
    /\ proc = Listening
    /\ inflight = [i \in Slots |-> Free]
    /\ held = <<>>
    /\ registered = {}
    /\ last = Idle

\* the call that the request of slot i awaits settles
Resume(i) ==
    \/ RegisterLookup(i)
    \/ \E salt \in Salts : RegisterHash(i, salt)
    \/ RegisterCreate(i)
    \/ LoginLookup(i)
    \/ LoginCompare(i)
    \/ MeLookup(i)

NextLive ==
    \/ \E i \in Slots, data \in LiveRegisterBodies : ArriveRegister(i, data)
    \/ \E i \in Slots, data \in LiveLoginBodies : ArriveLogin(i, data)
    \/ \E i \in Slots, h \in LiveHeaders : ArriveMe(i, h)
    \/ \E i \in Slots, h \in LiveHeaders : ArriveLogout(i, h)
    \/ \E i \in Slots : Resume(i)
    \/ \E i \in Slots : Close(i, TRUE)
    \/ \E call \in Calls \cup {"none"} : Outage(call)

SpecLive ==
    InitLive /\ [][NextLive]_vars /\ \A i \in Slots : WF_vars(Resume(i))

----------------------------------------------------------------------------
(* What the properties below read off the request in hand *)

Req == last.req
AuthHeader == Req.headers.authorization
Ran(layer) == Includes(Req.ran, layer)
Admitted == Passed(Req, "authMiddleware")
Gates == {"authMiddleware", "requireRole"}

\* the only response of the request is this one
Answered(layer, status, body) ==
    Req.sent = <<[by |-> layer, status |-> status, body |-> body]>>

\* "Bearer <token>": the word Bearer, one space, and no further space
WellShaped(h) ==
    /\ h.present
    /\ Len(h.value) >= 2
    /\ h.value[1] = Word("Bearer")
    /\ h.value[2] = SP
    /\ \A i \in 3..Len(h.value) : h.value[i] # SP

TokenOf(h) == SubSeq(h.value, 3, Len(h.value))

\* the token decodes and its signature is the server's over its payload
SignatureVerifies(token) ==
    /\ Len(token) = 1
    /\ token[1].k = "jwt"
    /\ env.JWT_SECRET # Undefined
    /\ token[1].t.sig = HS256(token[1].t.payload, env.JWT_SECRET)

Expiry(token) == token[1].t.payload.exp

\* the store holds an account for this email
Registered(email) == \E u \in users : u.email = email

\* m is the prefix followed by the roles of allowed, ', ' between them
ForbiddenMessage(m, allowed) ==
    LET n == Len(allowed)
    IN  /\ Len(m) = (IF n = 0 THEN 1 ELSE 2 * n)
        /\ m[1] = Word("Forbidden - Requires one of the following roles: ")
        /\ \A i \in 1..n : m[2 * i] = Word(allowed[i])
        /\ \A i \in 1..(n - 1) : m[2 * i + 1] = Word(", ")

\* requireRole ran on a request that no gate gave an identity
NoIdentityAtRoleGate == Ran("requireRole") /\ Req.user = Undefined

\* the messages of authMiddleware's 401 responses
AuthMiddlewareMessages ==
    {Str("No token provided"),
     Str("Token format invalid. Expected: Bearer <token>"),
     Str("Token expired"), Str("Invalid token"),
     Str("Authentication failed")}

\* how many times x occurs in seq
Count(seq, x) == Cardinality({i \in 1..Len(seq) : seq[i] = x})

\* what authMiddleware does with this token at time t
GateDecision(token, t) ==
    LET g == authMiddleware(NewRequest(Bearer(token), Undefined), t)
    IN  [admitted |-> Passed(g, "authMiddleware"), sent |-> g.sent,
         user |-> g.user]

----------------------------------------------------------------------------
(* C1: for a request with a well-shaped "Bearer <token>" header,           *)
(* authMiddleware admits the request exactly when the token's signature    *)
(* verifies under the server's secret and the clock is strictly before the *)
(* token's expiry, whatever was registered, logged in, logged out or       *)
(* deleted before.                                                         *)

C1_AdmitIffValid ==
    (Ran("authMiddleware") /\ WellShaped(AuthHeader))
        => (Admitted <=> (/\ SignatureVerifies(TokenOf(AuthHeader))
                          /\ now < Expiry(TokenOf(AuthHeader))))

\* a token issued earlier is admitted after its account was deleted
C1_Witness ==
    /\ last.route = "logout"
    /\ WellShaped(AuthHeader)
    /\ Admitted
    /\ now > 0
    /\ users = {}

----------------------------------------------------------------------------
(* C2: when authMiddleware or requireRole rejects a request (answers it),  *)
(* it does not call next() and no layer after it runs: the protected       *)
(* handler is never invoked for that request.                              *)

C2_RejectionStopsChain ==
    \A i \in 1..Len(Req.sent) :
        Req.sent[i].by \in Gates
            => /\ ~Passed(Req, Req.sent[i].by)
               /\ Req.ran[Len(Req.ran)] = Req.sent[i].by

\* requireRole rejects a request that authMiddleware admitted
C2_Witness ==
    /\ last.route = "gated"
    /\ Admitted
    /\ Len(Req.sent) = 1
    /\ Req.sent[1].by = "requireRole"
    /\ Req.sent[1].status = 403

----------------------------------------------------------------------------
(* C3: for valid {email, password} whose email is not registered, register *)
(* succeeds, and a login with the same credentials while the account       *)
(* exists succeeds with a token that, at every time before its expiry,     *)
(* authMiddleware admits with the identity {userId, email, role} of the    *)
(* registered user.                                                        *)

C3_RegisterThenLogin ==
    /\ (last.route = "register"
            /\ ~\E u \in last.before : u.email = Req.body.email)
        => /\ Len(Req.sent) = 1
           /\ Req.sent[1].status = 201
           /\ [email |-> Req.body.email, password |-> Req.body.password]
                  \in registered
    /\ (last.route = "login" /\ Req.body \in registered)
        => /\ Len(Req.sent) = 1
           /\ Req.sent[1].status = 200
           /\ Cardinality({u \in users : u.email = Req.body.email}) = 1
           /\ LET token == Req.sent[1].body.data.token
                  u == CHOOSE u \in users : u.email = Req.body.email
              IN  /\ now < Expiry(token)
                  /\ \A t \in now..(Expiry(token) - 1) :
                        LET g == authMiddleware(
                                     NewRequest(Bearer(token), Undefined), t)
                        IN  /\ Passed(g, "authMiddleware")
                            /\ g.sent = <<>>
                            /\ g.user = [userId |-> u.id, email |-> u.email,
                                         role |-> u.role]

\* a login with the credentials of an earlier register, for an ADMIN
C3_Witness ==
    /\ last.route = "login"
    /\ Req.body \in registered
    /\ Req.sent[1].status = 200
    /\ Req.sent[1].body.data.user.role = "ADMIN"

----------------------------------------------------------------------------
(* C4: enumeration resistance: a login with a registered email and a wrong *)
(* password and a login with an email that is not registered get the same  *)
(* result: the error 'Invalid credentials' from the service and the same   *)
(* 401 response from the controller.                                       *)

C4_EnumerationResistance ==
    \A d1 \in LoginBodies, d2 \in LoginBodies :
        (Registered(d1.email) /\ d1 \notin registered
             /\ ~Registered(d2.email))
        => /\ authService_login(d1, now) = Failure("Invalid credentials")
           /\ authService_login(d2, now) = authService_login(d1, now)
           /\ authController_login(NewRequest(NoHeader, d1), now).sent
                  = <<[by |-> "login", status |-> 401,
                       body |-> ErrorBody(Str("Invalid credentials"))]>>
           /\ authController_login(NewRequest(NoHeader, d2), now).sent
                  = authController_login(NewRequest(NoHeader, d1), now).sent

\* a login with a wrong password was refused while another email is unknown
C4_Witness ==
    /\ last.route = "login"
    /\ Registered(Req.body.email)
    /\ Req.body \notin registered
    /\ Req.sent[1].status = 401
    /\ \E e \in Emails : ~Registered(e)

----------------------------------------------------------------------------
(* C5: a register with an email that is in the credential store returns    *)
(* 'Email already exists' and leaves the store as it was: no row is        *)
(* created and no row is modified.                                         *)

C5_DuplicateEmailRejected ==
    /\ \A data \in RegisterBodies, salt \in Salts :
           Registered(data.email)
               => authService_register(data, salt, now)
                      = [result |-> Failure("Email already exists"),
                         users |-> users, nextId |-> nextId]
    /\ (last.route = "register"
            /\ \E u \in last.before : u.email = Req.body.email)
        => /\ Answered("register", 409,
                       ErrorBody(Str("Email already exists")))
           /\ users = last.before

\* a second register for an email, with another password and role
C5_Witness ==
    /\ last.route = "register"
    /\ \E u \in last.before :
           /\ u.email = Req.body.email
           /\ ~comparePasswords(Req.body.password, u.password)
           /\ u.role # RoleOrDefault(Req.body)
    /\ Req.sent[1].status = 409

----------------------------------------------------------------------------
(* C6: no response carries the stored password hash: the user object of    *)
(* every success response of register, login and GET /auth/me has no       *)
(* password field.                                                         *)

C6_NoPasswordInResponses ==
    \A i \in 1..Len(Req.sent) :
        LET b == Req.sent[i].body
        IN  ("data" \in DOMAIN b /\ "user" \in DOMAIN b.data)
                => "password" \notin DOMAIN b.data.user

\* GET /auth/me answers with the user, whose stored row has a password
C6_Witness ==
    /\ last.route = "me"
    /\ Len(Req.sent) = 1
    /\ Req.sent[1].status = 200
    /\ \E u \in users :
           /\ u.id = Req.sent[1].body.data.user.id
           /\ "password" \in DOMAIN u

----------------------------------------------------------------------------
(* C7: for a request that reaches requireRole with an identity attached,   *)
(* and for every allow-list, the empty one included, requireRole admits    *)
(* the request exactly when the identity's role is in the allow-list;      *)
(* otherwise it answers 403 with 'Forbidden - Requires one of the          *)
(* following roles: ' followed by the allow-list joined with ', '.         *)

C7_RoleGate ==
    (Ran("requireRole") /\ Req.user # Undefined)
        => IF Req.user.role \in {last.allowed[i] : i \in 1..Len(last.allowed)}
           THEN /\ Passed(Req, "requireRole")
                /\ \A i \in 1..Len(Req.sent) : Req.sent[i].by # "requireRole"
           ELSE /\ ~Passed(Req, "requireRole")
                /\ Len(Req.sent) = 1
                /\ Req.sent[1].by = "requireRole"
                /\ Req.sent[1].status = 403
                /\ Req.sent[1].body.status = "error"
                /\ ForbiddenMessage(Req.sent[1].body.message, last.allowed)

\* requireRole(["ADMIN"]) after authMiddleware, the caller is STAFF
C7_Witness ==
    /\ last.route = "gated"
    /\ last.allowed = <<"ADMIN">>
    /\ Req.user # Undefined
    /\ Req.user.role = "STAFF"
    /\ Req.sent[1].status = 403

----------------------------------------------------------------------------
----------------------------------------------------------------------------
(* C9: authMiddleware answers 401 to every request whose Authorization     *)
(* header is absent or is not "Bearer", one space, and a part without      *)
(* spaces: 'No token provided' for an absent or empty header, 'Token       *)
(* format invalid. Expected: Bearer <token>' for any other wrong shape;    *)
(* in neither case is jwt.verify called.                                   *)

C9_HeaderShape ==
    Ran("authMiddleware")
        => /\ (~AuthHeader.present \/ AuthHeader.value = <<>>)
                => /\ Answered("authMiddleware", 401,
                               ErrorBody(Str("No token provided")))
                   /\ Req.verifies = 0
                   /\ ~Admitted
           /\ (AuthHeader.present /\ AuthHeader.value # <<>>
                   /\ ~WellShaped(AuthHeader))
                => /\ Answered("authMiddleware", 401, ErrorBody(Str(
                          "Token format invalid. Expected: Bearer <token>")))
                   /\ Req.verifies = 0
                   /\ ~Admitted

\* "bearer <token>": two parts, the scheme in lower case
C9_Witness ==
    /\ Ran("authMiddleware")
    /\ AuthHeader.value = <<Word("bearer"), SP>> \o held
    /\ Req.sent[1].status = 401
    /\ Req.verifies = 0

----------------------------------------------------------------------------
(* C10: for a well-shaped Bearer header, a token whose signature verifies  *)
(* and whose expiry has passed is answered 401 'Token expired', and a      *)
(* token that does not decode or whose signature does not verify is        *)
(* answered 401 'Invalid token'.                                           *)

C10_TokenFailures ==
    (Ran("authMiddleware") /\ WellShaped(AuthHeader))
        => /\ (SignatureVerifies(TokenOf(AuthHeader))
                   /\ now >= Expiry(TokenOf(AuthHeader)))
                => Answered("authMiddleware", 401,
                            ErrorBody(Str("Token expired")))
           /\ ~SignatureVerifies(TokenOf(AuthHeader))
                => Answered("authMiddleware", 401,
                            ErrorBody(Str("Invalid token")))

\* the held token, presented after its expiry
C10_Witness ==
    /\ Ran("authMiddleware")
    /\ held # <<>>
    /\ AuthHeader = Bearer(held)
    /\ now > Expiry(held)
    /\ Answered("authMiddleware", 401, ErrorBody(Str("Token expired")))

----------------------------------------------------------------------------
(* C11: expiry boundary: a correctly signed token presented to             *)
(* authMiddleware at a time equal to its expiry instant is answered 401    *)
(* 'Token expired', and the same token presented one tick before its       *)
(* expiry instant is admitted.                                             *)

C11_ExpiryBoundary ==
    (Ran("authMiddleware") /\ WellShaped(AuthHeader)
         /\ SignatureVerifies(TokenOf(AuthHeader)))
        => LET token == TokenOf(AuthHeader)
               at == authMiddleware(NewRequest(AuthHeader, Undefined),
                                    Expiry(token))
               before == authMiddleware(NewRequest(AuthHeader, Undefined),
                                        Expiry(token) - 1)
           IN  /\ now = Expiry(token)
                    => /\ ~Admitted
                       /\ Answered("authMiddleware", 401,
                                   ErrorBody(Str("Token expired")))
               /\ now = Expiry(token) - 1
                    => /\ Admitted
                       /\ \A i \in 1..Len(Req.sent) :
                              Req.sent[i].by # "authMiddleware"
               /\ ~Passed(at, "authMiddleware")
               /\ at.sent = <<[by |-> "authMiddleware", status |-> 401,
                               body |-> ErrorBody(Str("Token expired"))]>>
               /\ Passed(before, "authMiddleware")
               /\ before.sent = <<>>

\* the held token, presented at the very second of its expiry
C11_Witness ==
    /\ Ran("authMiddleware")
    /\ held # <<>>
    /\ AuthHeader = Bearer(held)
    /\ now = Expiry(held)
    /\ ~Admitted

----------------------------------------------------------------------------
(* C12: token round trip: for every claims triple {userId, email, role}    *)
(* and every time-to-live above zero, a token that generateToken issued,   *)
(* verified under the same secret at any time before its expiry, yields    *)
(* an identity whose userId, email and role are the issued ones.           *)

C12_TokenRoundTrip ==
    /\ \A id \in 1..MaxUsers, email \in Emails, role \in Roles :
           LET issued == generateToken([id |-> id, email |-> email,
                                        role |-> role], now)
           IN  ~issued.threw
                   => \A t \in now..MaxTime :
                          t < Expiry(issued.token)
                              => LET decoded == jwtVerify(issued.token,
                                                          env.JWT_SECRET, t)
                                     g == authMiddleware(
                                              NewRequest(Bearer(issued.token),
                                                         Undefined), t)
                                 IN  /\ decoded.ok
                                     /\ decoded.payload.userId = id
                                     /\ decoded.payload.email = email
                                     /\ decoded.payload.role = role
                                     /\ g.user = [userId |-> id,
                                                  email |-> email,
                                                  role |-> role]
    /\ (last.route = "me" /\ held # <<>> /\ AuthHeader = Bearer(held)
            /\ now < Expiry(held))
        => /\ Admitted
           /\ \E u \in users :
                  Req.user = [userId |-> u.id, email |-> u.email,
                              role |-> u.role]

\* a CHEF's token, issued under the default time-to-live, verified later
C12_Witness ==
    /\ last.route = "me"
    /\ held # <<>>
    /\ AuthHeader = Bearer(held)
    /\ env.JWT_EXPIRE = Undefined
    /\ now > held[1].t.payload.iat
    /\ Admitted
    /\ Req.user.role = "CHEF"

----------------------------------------------------------------------------
(* C13: logout is non-invalidating: a logout request, whatever header it  *)
(* carries, leaves the decision of authMiddleware on the token the service *)
(* issued, now and at every later time, as it was before the request, so   *)
(* no number of logouts changes it; and a logout request that              *)
(* authMiddleware admits is always answered 200 'Logged out successfully'. *)

C13_LogoutNonInvalidating ==
    /\ []((last.route = "logout" /\ Admitted)
              => Answered("logout", 200,
                          MessageBody(Str("Logged out successfully"))))
    /\ [][(last'.route = "logout" /\ held # <<>>)
              => \A t \in now..MaxTime :
                     GateDecision(held, t)' = GateDecision(held, t)]_vars

\* a logout with the held token, which the gate goes on admitting
C13_Witness ==
    /\ last.route = "logout"
    /\ held # <<>>
    /\ AuthHeader = Bearer(held)
    /\ Answered("logout", 200, MessageBody(Str("Logged out successfully")))
    /\ GateDecision(held, now).admitted

----------------------------------------------------------------------------
(* C14: optionalAuth never blocks: for every request (no header, a         *)
(* malformed header, an invalid, an expired or a valid token) it calls     *)
(* next() exactly once and sends no response, and the handler behind it    *)
(* runs; with no header the request goes on with no identity attached, and *)
(* an identity is attached only from a token that verifies.                *)

C14_OptionalNeverBlocks ==
    Ran("optionalAuth")
        => /\ Count(Req.nexts, "optionalAuth") = 1
           /\ \A i \in 1..Len(Req.sent) : Req.sent[i].by # "optionalAuth"
           /\ Ran("list")
           /\ ~AuthHeader.present => Req.user = Undefined
           /\ Req.user # Undefined
                  => /\ WellShaped(AuthHeader)
                     /\ SignatureVerifies(TokenOf(AuthHeader))
                     /\ now < Expiry(TokenOf(AuthHeader))

\* an expired token: the request goes on without an identity
C14_Witness ==
    /\ Ran("optionalAuth")
    /\ AuthHeader = Bearer(held)
    /\ now >= Expiry(held)
    /\ Req.user = Undefined
    /\ Req.verifies = 1
    /\ Ran("list")

----------------------------------------------------------------------------
(* C15: a request whose Authorization header is 'Bearer ' (the word        *)
(* Bearer, one space, an empty token segment) passes the format check of   *)
(* authMiddleware as two parts, reaches jwt.verify and is answered 401     *)
(* 'Invalid token': neither 'Token format invalid. Expected: Bearer        *)
(* <token>' nor 'No token provided'.                                       *)

C15_EmptyTokenSegment ==
    (Ran("authMiddleware") /\ AuthHeader = Header(<<Word("Bearer"), SP>>))
        => /\ Len(Split(AuthHeader.value)) = 2
           /\ ~FormatInvalid(Split(AuthHeader.value))
           /\ Req.verifies = 1
           /\ ~Admitted
           /\ Answered("authMiddleware", 401, ErrorBody(Str("Invalid token")))
           /\ Req.sent[1].body.message
                  \notin {Str("No token provided"),
                          Str("Token format invalid. Expected: Bearer <token>")}

\* POST /auth/logout with the header 'Bearer '
C15_Witness ==
    /\ last.route = "logout"
    /\ AuthHeader = Header(<<Word("Bearer"), SP>>)
    /\ Split(AuthHeader.value) = <<Str("Bearer"), <<>> >>
    /\ Req.sent[1].status = 401

----------------------------------------------------------------------------
(* C16: for every successful register whose input has no role, the stored  *)
(* user's role is STAFF and the role claim of the returned token is STAFF; *)
(* when the input names a role, the stored role and the token's role claim *)
(* are both that role.                                                     *)

C16_RegisterRole ==
    /\ \A data \in [email : Emails, password : Passwords, name : Names]
                   \cup [email : Emails, password : Passwords, name : Names,
                         role : Roles], salt \in Salts :
           LET out == authService_register(data, salt, now)
               given == IF "role" \in DOMAIN data THEN data.role ELSE "STAFF"
           IN  out.result.success
                   => /\ \E u \in out.users \ users :
                             /\ u.email = data.email
                             /\ u.role = given
                      /\ \A u \in out.users \ users : u.role = given
                      /\ out.result.data.token[1].t.payload.role = given
                      /\ out.result.data.user.role = given
    /\ (last.route = "register" /\ Req.sent[1].status = 201)
        => LET given == IF "role" \in DOMAIN Req.body
                        THEN Req.body.role ELSE "STAFF"
           IN  /\ \E u \in users \ last.before :
                      u.email = Req.body.email /\ u.role = given
               /\ Req.sent[1].body.data.token[1].t.payload.role = given

\* a register without a role has answered 201
C16_Witness ==
    /\ last.route = "register"
    /\ "role" \notin DOMAIN Req.body
    /\ Req.sent[1].status = 201
    /\ \E u \in users : u.email = Req.body.email /\ u.role = "STAFF"
    /\ \E u \in users : u.role = "ADMIN"

----------------------------------------------------------------------------
(* C17: after a user registered and was given a token, and the user's row  *)
(* was removed from the credential store, a GET /auth/me with that token,  *)
(* before the token expires, is admitted by authMiddleware and answered    *)
(* 404 'User not found', never 401 or 403.                                 *)

C17_DeletedAccount ==
    (last.route = "me" /\ held # <<>> /\ AuthHeader = Bearer(held)
         /\ now < Expiry(held)
         /\ ~\E u \in users : u.id = held[1].t.payload.userId)
        => /\ Admitted
           /\ Req.user.userId = held[1].t.payload.userId
           /\ Answered("me", 404, ErrorBody(Str("User not found")))
           /\ \A i \in 1..Len(Req.sent) : Req.sent[i].status \notin {401, 403}

\* the token of a deleted account, while another account exists
C17_Witness ==
    /\ last.route = "me"
    /\ held # <<>>
    /\ AuthHeader = Bearer(held)
    /\ now < Expiry(held)
    /\ users # {}
    /\ ~\E u \in users : u.id = held[1].t.payload.userId
    /\ Req.sent[1].status = 404

----------------------------------------------------------------------------
----------------------------------------------------------------------------
(* C19: every POST /auth/login that does not succeed is answered 401 with  *)
(* the body {status: 'error', message: 'Invalid credentials'}, whatever    *)
(* the cause of the failure: an unknown email, a wrong password, or a      *)
(* failure of the credential store or of the hasher during the call.       *)

C19_FailedLoginMessage ==
    (last.route = "login" /\ ~(Len(Req.sent) = 1 /\ Req.sent[1].status = 200))
        => Answered("login", 401, ErrorBody(Str("Invalid credentials")))

----------------------------------------------------------------------------
(* C20: POST /auth/register answers 201 with {user, token} exactly when a  *)
(* user was created and a token issued, 409 with 'Email already exists'    *)
(* exactly when the service returned 'Email already exists', and 400 for   *)
(* every other failed creation; the handler produces no other status.      *)

C20_RegisterStatuses ==
    /\ \A data \in RegisterBodies, salt \in Salts :
           LET out == authService_register(data, salt, now)
               res == authController_register(NewRequest(NoHeader, data),
                                              salt, now).req.sent
           IN  /\ Len(res) = 1
               /\ res[1].status \in {201, 409, 400}
               /\ res[1].status = 201
                      <=> /\ out.result.success
                          /\ out.users # users
                          /\ DOMAIN out.result.data = {"user", "token"}
                          /\ IsJwt(out.result.data.token)
               /\ res[1].status = 201
                      => res[1].body = DataBody(out.result.data)
               /\ res[1].status = 409
                      <=> out.result = Failure("Email already exists")
               /\ res[1].status = 409
                      => res[1].body = ErrorBody(Str("Email already exists"))
               /\ res[1].status = 400
                      <=> /\ ~out.result.success
                          /\ out.result.error # "Email already exists"
    /\ last.route = "register"
        => /\ Len(Req.sent) = 1
           /\ Req.sent[1].by = "register"
           /\ Req.sent[1].status \in {201, 409, 400}
           /\ Req.sent[1].status = 201
                  <=> (users # last.before /\ env.JWT_SECRET # Undefined)
           /\ Req.sent[1].status = 409
                  <=> /\ failing # "findUnique"
                      /\ \E u \in last.before : u.email = Req.body.email

\* the store rejects the create: no row, no token, 400
C20_Witness ==
    /\ last.route = "register"
    /\ failing = "create"
    /\ users = last.before
    /\ Answered("register", 400,
                ErrorBody(Str("Failed to create user. Please try again.")))

----------------------------------------------------------------------------
(* C21: if the signing secret JWT_SECRET is absent at process boot (not in *)
(* the environment, not in .env), startup fails: the server never reaches  *)
(* the state in which it listens for and handles requests.                 *)

C21_NoSecretNoListening ==
    proc.state = "listening" => envSchemaParse(env).ok

----------------------------------------------------------------------------
\* ServiceResponse<T>: success with data and no error, or failure with an
\* error and no data
TypedResult(r) ==
    \/ DOMAIN r = {"success", "data"} /\ r.success
    \/ DOMAIN r = {"success", "error"} /\ ~r.success

\* C22: whatever the input, and whichever call of the store, of the hasher
\* or of token issuance fails during it, register and login each return a
\* typed result, {success: true, data} or {success: false, error}, never
\* both and never an exception.
C22_ServiceNeverThrows ==
    /\ \A data \in RegisterBodies, salt \in Salts :
           TypedResult(authService_register(data, salt, now).result)
    /\ \A data \in LoginBodies : TypedResult(authService_login(data, now))

\* a login with the right password was answered while bcrypt.compare
\* rejects
C22_Witness ==
    /\ last.route = "login"
    /\ failing = "compare"
    /\ [email |-> Req.body.email, password |-> Req.body.password]
           \in registered
    /\ Answered("login", 401,
                ErrorBody(Str("Login failed. Please try again.")))

----------------------------------------------------------------------------
\* what jwt.verify throws for the token of the request in hand, if anything
VerifyError == jwtVerify(TokenOf(AuthHeader), env.JWT_SECRET, now)

\* C24: in authMiddleware a failure raised while the token is verified that
\* is neither an expiry error nor a malformed or invalid-signature error is
\* answered 401 'Authentication failed', and the protected handler does not
\* run.
C24_UnexpectedFailure ==
    (/\ last.route = "me"
     /\ Req.verifies > 0
     /\ ~VerifyError.ok
     /\ ~InstanceOfTokenExpiredError(VerifyError)
     /\ ~InstanceOfJsonWebTokenError(VerifyError))
        => /\ Answered("authMiddleware", 401,
                       ErrorBody(Str("Authentication failed")))
           /\ Len(Req.sent) = 1
           /\ ~Ran("me")

\* jwt.verify failed unexpectedly on a token the service had issued, and the
\* request was answered
C24_Witness ==
    /\ last.route = "me"
    /\ failing = "verify"
    /\ held # <<>>
    /\ AuthHeader = Bearer(held)
    /\ Req.verifies = 1
    /\ Answered("authMiddleware", 401,
                ErrorBody(Str("Authentication failed")))

----------------------------------------------------------------------------
\* C26: login, GET /auth/me, logout and the three gates leave the credential
\* store as it was; only a register that succeeds adds a record, and no token
\* issued or verified creates or destroys a record.
C26_StatelessFrame ==
    last # Idle =>
        /\ last.route # "register" => users = last.before
        /\ users # last.before =>
               /\ last.route = "register"
               /\ Len(Req.sent) = 1
               /\ Req.sent[1].status = 201
               /\ \E u \in users : /\ u \notin last.before
                                    /\ users = last.before \cup {u}

----------------------------------------------------------------------------
\* C28: register is all-or-nothing: whenever it returns a failure, whatever
\* the message, the store holds no record created by that call; a failure of
\* token issuance after the user was stored leaves no user behind the error.
C28_RegisterAllOrNothing ==
    (/\ last.route = "register"
     /\ Len(Req.sent) = 1
     /\ Req.sent[1].body.status = "error")
        => users = last.before

----------------------------------------------------------------------------
\* C30: on a route composed as authMiddleware, requireRole(allowed), handler,
\* the handler runs only if the request carried a correctly signed, unexpired
\* token whose role claim is in the allow-list, and exactly one of the three
\* stages produces the outcome: 401 from the first, 403 from the second, or
\* the handler's response.
C30_GatedChain ==
    last.route = "gated" =>
        /\ Ran("handler") =>
               /\ WellShaped(AuthHeader)
               /\ SignatureVerifies(TokenOf(AuthHeader))
               /\ now < Expiry(TokenOf(AuthHeader))
               /\ Includes(last.allowed,
                           TokenOf(AuthHeader)[1].t.payload.role)
        /\ Len(Req.sent) = 1
        /\ \/ /\ Req.sent[1].by = "authMiddleware"
              /\ Req.sent[1].status = 401
              /\ ~Ran("requireRole")
              /\ ~Ran("handler")
           \/ /\ Req.sent[1].by = "requireRole"
              /\ Req.sent[1].status = 403
              /\ Passed(Req, "authMiddleware")
              /\ ~Ran("handler")
           \/ /\ Req.sent[1].by = "handler"
              /\ Passed(Req, "authMiddleware")
              /\ Passed(Req, "requireRole")

\* a token of the service, still good, whose role is not in the allow-list,
\* was stopped by the second stage
C30_Witness ==
    /\ last.route = "gated"
    /\ last.allowed # <<>>
    /\ held # <<>>
    /\ AuthHeader = Bearer(held)
    /\ SignatureVerifies(held)
    /\ now < Expiry(held)
    /\ Req.sent[1].by = "requireRole"
    /\ Req.sent[1].status = 403

----------------------------------------------------------------------------
(* What the properties below read off the requests in flight *)

\* the request of slot i is a register that found no user for its email: its
\* lookup settled before any row for the email was created
PassedLookup(i) ==
    /\ inflight[i].pc # "free"
    /\ inflight[i].route = "register"
    /\ inflight[i].pc \in {"hash", "create"} \/ inflight[i].local # Undefined

\* two finished registers for one email that both passed the lookup
Raced(i, j) ==
    /\ i # j
    /\ PassedLookup(i) /\ inflight[i].pc = "done"
    /\ PassedLookup(j) /\ inflight[j].pc = "done"
    /\ inflight[i].req.body.email = inflight[j].req.body.email

StatusOf(i) == inflight[i].req.sent[1].status

\* C25: under any interleaving of concurrent requests, the gate outcome and
\* the identity attached to a request depend only on its own Authorization
\* header, the signing secret and the time; the identity attached to one
\* request is never observable on another.
C25_RequestIsolation ==
    \A i \in Slots :
        inflight[i].pc # "free" =>
            LET r == inflight[i]
                h == r.req.headers.authorization
                g == authMiddleware(NewRequest(h, Undefined), r.at)
            IN  /\ r.route = "register" => r.req.user = Undefined
                /\ r.route \in {"me", "logout"} =>
                       /\ r.req.user = g.user
                       /\ Passed(r.req, "authMiddleware")
                              = Passed(g, "authMiddleware")
                       /\ ~Passed(g, "authMiddleware") => r.req.sent = g.sent
                /\ (/\ r.route = "me"
                    /\ r.pc = "done"
                    /\ StatusOf(i) = 200) =>
                       LET claims == TokenOf(h)[1].t.payload
                           shown == r.req.sent[1].body.data.user
                       IN  /\ shown.id = claims.userId
                           /\ shown.email = claims.email

\* two requests of different accounts were in flight together, and one of
\* them has been shown its account
C25_Witness ==
    \E i, j \in Slots :
        /\ i # j
        /\ inflight[i].pc = "done"
        /\ inflight[i].route = "me"
        /\ StatusOf(i) = 200
        /\ inflight[j].pc = "findUniqueById"
        /\ inflight[j].req.user # Undefined
        /\ inflight[j].req.user.userId # inflight[i].req.user.userId

----------------------------------------------------------------------------
\* C27: when two register requests for one email that is not yet registered
\* are processed concurrently, their lookups and creates interleaved, exactly
\* one succeeds and the other is rejected with 409 'Email already exists'.
C27_ConcurrentRegisters ==
    \A i, j \in Slots :
        Raced(i, j) =>
            \/ /\ StatusOf(i) = 201
               /\ inflight[j].req.sent
                      = <<[by |-> "register", status |-> 409,
                           body |-> ErrorBody(Str("Email already exists"))]>>
            \/ /\ StatusOf(j) = 201
               /\ inflight[i].req.sent
                      = <<[by |-> "register", status |-> 409,
                           body |-> ErrorBody(Str("Email already exists"))]>>

----------------------------------------------------------------------------
----------------------------------------------------------------------------
\* C23: every request to register, login, /me or /logout eventually receives
\* exactly one response, also when the store, the hasher or the token codec
\* fails during the request; no failure leaves a request unanswered or ends
\* the process. (No request stays for ever at a call it awaits, and a handler
\* that has returned has answered once.)
C23_EveryRequestAnswered ==
    /\ [](/\ proc.state = "listening"
          /\ \A i \in Slots :
                 /\ inflight[i].pc = "done" =>
                        Len(inflight[i].req.sent) = 1
                 /\ Busy(i) => inflight[i].req.sent = <<>>)
    /\ \A i \in Slots : []<>~Busy(i)

\* a login with the right password was answered although bcrypt.compare
\* rejected
C23_Witness ==
    \E i \in Slots :
        /\ inflight[i].pc = "done"
        /\ inflight[i].route = "login"
        /\ inflight[i].local # Undefined
        /\ BcryptCompare(inflight[i].req.body.password,
                         inflight[i].local.user.password)
        /\ env.JWT_SECRET # Undefined
        /\ inflight[i].req.sent
               = <<[by |-> "login", status |-> 401,
                    body |-> ErrorBody(
                                Str("Login failed. Please try again."))]>>

----------------------------------------------------------------------------
\* what authMiddleware does with the request in hand, at the same time and
\* under the same secret
MandatoryGate == authMiddleware(NewRequest(AuthHeader, Undefined), now)

\* C31: optionalAuth attaches an identity to a request if and only if
\* authMiddleware would admit the same request at the same time under the
\* same secret, and the identity is then the same {userId, email, role}.
C31_GatesAgree ==
    last.route = "optional" =>
        /\ Req.user # Undefined <=> Passed(MandatoryGate, "authMiddleware")
        /\ Req.user = MandatoryGate.user

\* optionalAuth attached the identity of a token of the service
C31_Witness ==
    /\ last.route = "optional"
    /\ AuthHeader = Bearer(held)
    /\ Req.user = [userId |-> held[1].t.payload.userId,
                   email |-> held[1].t.payload.email,
                   role |-> held[1].t.payload.role]

----------------------------------------------------------------------------
\* C32: the signature is checked before the expiry: a token that is past its
\* expiry and whose signature is invalid, or made under another secret, is
\* rejected by authMiddleware with 'Invalid token', never with 'Token
\* expired'; 'Token expired' is returned only for tokens whose signature
\* verifies.
C32_SignatureBeforeExpiry ==
    (Ran("authMiddleware") /\ Req.verifies > 0
         /\ IsJwt(TokenOf(AuthHeader)))
        => /\ (/\ ~SignatureVerifies(TokenOf(AuthHeader))
               /\ now >= Expiry(TokenOf(AuthHeader)))
                  => /\ Answered("authMiddleware", 401,
                                 ErrorBody(Str("Invalid token")))
                     /\ \A i \in 1..Len(Req.sent) :
                            Req.sent[i].body.message # Str("Token expired")
           /\ (\E i \in 1..Len(Req.sent) :
                   /\ Req.sent[i].by = "authMiddleware"
                   /\ Req.sent[i].body.message = Str("Token expired"))
                  => SignatureVerifies(TokenOf(AuthHeader))

\* a token of the service, re-signed by a stranger and presented after its
\* expiry, was answered 'Invalid token'
C32_Witness ==
    /\ Ran("authMiddleware")
    /\ held # <<>>
    /\ AuthHeader = Bearer(Resign(held))
    /\ now >= Expiry(held)
    /\ Answered("authMiddleware", 401, ErrorBody(Str("Invalid token")))

----------------------------------------------------------------------------
\* the token of the success response of the request in hand
IssuedToken == Req.sent[1].body.data.token

\* C33: every token issued by register or login carries the claims of the
\* stored user record at the moment it is issued: userId is the record's id,
\* email its email, role its stored role.
C33_ClaimsOfTheRecord ==
    (/\ last.route \in {"register", "login"}
     /\ Len(Req.sent) = 1
     /\ Req.sent[1].body.status = "success")
        => \E u \in users :
               /\ u.email = Req.body.email
               /\ IssuedToken[1].t.payload.userId = u.id
               /\ IssuedToken[1].t.payload.email = u.email
               /\ IssuedToken[1].t.payload.role = u.role

\* a login to an account that was registered as ADMIN was given its token
C33_Witness ==
    /\ last.route = "login"
    /\ Len(Req.sent) = 1
    /\ Req.sent[1].status = 200
    /\ IssuedToken[1].t.payload.role = "ADMIN"
    /\ \E u \in users : u.email = Req.body.email /\ u.role = "ADMIN"

----------------------------------------------------------------------------
\* C34: login returns a token only if a user with the given email is in the
\* credential store and the supplied password verifies against that user's
\* stored hash; in every other case the result is a failure with no token and
\* no user data.
C34_TokenOnlyOnCredentials ==
    \A data \in LoginBodies :
        LET result == authService_login(data, now)
            verified == \E u \in users :
                            /\ u.email = data.email
                            /\ BcryptCompare(data.password, u.password)
        IN  /\ result.success => verified
            /\ ~verified =>
                   /\ DOMAIN result = {"success", "error"}
                   /\ ~result.success
                   /\ DOMAIN authController_login(NewRequest(NoHeader, data),
                                                  now).sent[1].body
                          = {"status", "message"}

\* a login was given a token while a login to the same account with another
\* password would be refused
C34_Witness ==
    /\ last.route = "login"
    /\ Len(Req.sent) = 1
    /\ Req.sent[1].status = 200
    /\ IsJwt(IssuedToken)
    /\ Req.body \in registered
    /\ \E data \in LoginBodies :
           /\ data.email = Req.body.email
           /\ data.password # Req.body.password
           /\ ~authService_login(data, now).success

----------------------------------------------------------------------------
\* the responses this layer sent for the request in hand
SentBy(layer) ==
    Cardinality({i \in 1..Len(Req.sent) : Req.sent[i].by = layer})

\* C35: each invocation of authMiddleware, and of the middleware requireRole
\* returns, has exactly one outcome: it calls next exactly once or sends
\* exactly one response, never both and never neither.
C35_OneOutcome ==
    \A layer \in Gates :
        /\ Count(Req.ran, layer) <= 1
        /\ Count(Req.nexts, layer) + SentBy(layer) = Count(Req.ran, layer)

\* both gates ran for one request: the first called next, the second answered
C35_Witness ==
    /\ last.route = "gated"
    /\ Req.ran = <<"authMiddleware", "requireRole">>
    /\ Req.nexts = <<"authMiddleware">>
    /\ SentBy("requireRole") = 1
    /\ SentBy("authMiddleware") = 0

----------------------------------------------------------------------------
\* an identity some earlier layer of a chain could have left on the request
PriorIdentity == [userId |-> 0, email |-> "prior@x.com", role |-> "CHEF"]

\* the request in hand as it would reach a gate with this req.user
WithUser(prior) == [NewRequest(AuthHeader, Undefined) EXCEPT !.user = prior]

\* C36: a rejection leaves the request context as it was: when authMiddleware
\* rejects a request, or optionalAuth fails to verify its token, req.user has
\* the value it had before the gate ran; an identity is written only where
\* the token was verified, and it consists of exactly userId, email and role.
C36_RejectionKeepsContext ==
    /\ (Ran("authMiddleware") /\ ~Admitted) => Req.user = Undefined
    /\ (Ran("optionalAuth") /\ (Req.verifies = 0 \/ ~VerifyError.ok))
           => Req.user = Undefined
    /\ Req.user # Undefined =>
           /\ Req.verifies = 1
           /\ VerifyError.ok
           /\ Req.user = [userId |-> VerifyError.payload.userId,
                          email |-> VerifyError.payload.email,
                          role |-> VerifyError.payload.role]
    /\ \A prior \in {Undefined, PriorIdentity} :
           LET g == authMiddleware(WithUser(prior), now)
               o == optionalAuth(WithUser(prior), now)
           IN  /\ ~Passed(g, "authMiddleware") => g.user = prior
               /\ g.user # prior => DOMAIN g.user = {"userId", "email", "role"}
               /\ o.user # prior =>
                      /\ o.verifies = 1
                      /\ VerifyError.ok
                      /\ DOMAIN o.user = {"userId", "email", "role"}

\* authMiddleware refused a token of the service after its expiry, and the
\* request has no identity
C36_Witness ==
    /\ Ran("authMiddleware")
    /\ ~Admitted
    /\ AuthHeader = Bearer(held)
    /\ Req.verifies = 1
    /\ IsJwt(held)
    /\ now >= Expiry(held)
    /\ Req.user = Undefined


\* C37: after any sequence of requests to POST /auth/register, every stored
\* record has a role in {ADMIN, MANAGER, STAFF, CHEF}; a body whose role is
\* outside the set is answered 400 'Validation failed' by the validation
\* layer alone, the register handler does not run and the store is unchanged
C37_RolesClosed ==
    /\ \A u \in users : u.role \in Roles
    /\ (/\ last.route = "register"
        /\ "role" \in DOMAIN Req.body
        /\ Req.body.role \notin Roles)
       => /\ Len(Req.sent) = 1
          /\ Req.sent[1].by = "validate"
          /\ Req.sent[1].status = 400
          /\ Req.sent[1].body.status = "error"
          /\ Req.sent[1].body.message = Str("Validation failed")
          /\ \E i \in DOMAIN Req.sent[1].body.errors :
                 Req.sent[1].body.errors[i].field = "role"
          /\ ~Ran("register")
          /\ ~Passed(Req, "validate")
          /\ users = last.before

C37_Witness ==
    /\ last.route = "register"
    /\ "role" \in DOMAIN Req.body
    /\ Req.body.role = "OWNER"
    /\ "name" \in DOMAIN Req.body
    /\ Len(Req.sent[1].body.errors) = 1
    /\ Req.sent[1].status = 400
    /\ users # {}
    /\ users = last.before

====
